---- MODULE Spec2Model ----
(***************************************************************************)
(* Model of the config mapping and plan entitlement engine of the music    *)
(* studio backend: app/models.py (the validated GenerateConfig),           *)
(* app/feature_flags.py (PLAN_LIMITS, validate_plan_limits) and            *)
(* app/mapping.py (the preset resolvers, the genre merger and the payload  *)
(* assembler).                                                             *)
(*                                                                         *)
(* Floats of the config (ai.creativity, plan max_creativity) are counted   *)
(* in hundredths: 0.5 is 50, 0.75 is 75, 1.0 is 100.                       *)
(***************************************************************************)
EXTENDS Integers, Sequences, FiniteSets, TLC

VARIABLES
    cfg,            \* the GenerateConfig of the request
    plan,           \* the caller's PlanType
    verdict,        \* outcome of validate_plan_limits(cfg, plan)
    merged_genre,   \* value returned by merge_genre_fusion
    instrument_preset, \* value returned by choose_instrument_preset
    voice,          \* value returned by choose_voice_preset
    payload,        \* value returned by map_to_music_api
    pc,             \* position of the generation pipeline for this request
    sent,           \* payload handed to the composition API
    tables,         \* the module-level dicts of feature_flags.py and mapping.py
    hash_seed,      \* the str hash seed of the process (fixes the order of a set)
    raw,            \* the request body handed to the schema layer
    parsed,         \* what the schema layer made of raw
    parts,          \* the list build_lyrics_prompt joins
    lyrics_prompt,  \* value returned by build_lyrics_prompt
    verdict_again,  \* outcome of a second validate_plan_limits(cfg, plan)
    payload_again,  \* value returned by a second map_to_music_api(cfg)
    wk,             \* the concurrent workers, each with its own request and calls
    processing_tasks,   \* the task store of routes/music.py: task_id -> status record
    jobs,           \* the background jobs of the tasks: position and generation outcome
    http            \* the request a route handler was given and the response it gave

procVars == <<tables, hash_seed>>
schemaVars == <<raw, parsed>>
promptVars == <<parts, lyrics_prompt>>
repeatVars == <<verdict_again, payload_again>>
webVars == <<processing_tasks, jobs, http>>
coreVars == <<cfg, plan, verdict, merged_genre, instrument_preset, voice, payload, pc, sent,
              procVars, schemaVars, promptVars, repeatVars, wk>>
otherVars == <<procVars, schemaVars, promptVars, repeatVars, wk, webVars>>

vars == <<cfg, plan, verdict, merged_genre, instrument_preset, voice, payload, pc, sent,
          otherVars>>

(***************************************************************************)
(* Bounds of the explored inputs.                                          *)
(***************************************************************************)
MaxStems == 2
MaxFusion == 3
MaxSupport == 3
MaxKeywords == 2
MaxLanguages == 2
NWorkers == 2
MaxTasks == 2

\* Python's None, for Optional[str] fields; no modelled input string equals it.
None == "<None>"

\* The value of a str result before the call that returns it.
NotCalled == "<not called>"

\* The verdict before validate_plan_limits was called.
NoVerdict == [outcome |-> "not called"]

\* No payload assembled / handed over yet.
NoPayload == [assembled |-> FALSE]

(***************************************************************************)
(* Generic helpers for Python list, set and str operations.                *)
(***************************************************************************)
\* set(xs)
ToSet(xs) == {xs[i] : i \in 1..Len(xs)}

\* xs[:n]
Take(xs, n) == SubSeq(xs, 1, IF Len(xs) < n THEN Len(xs) ELSE n)

\* sep.join(xs)
RECURSIVE Join(_, _)
Join(xs, sep) ==
    IF Len(xs) = 0 THEN ""
    ELSE IF Len(xs) = 1 THEN xs[1]
    ELSE xs[1] \o sep \o Join(Tail(xs), sep)

\* All sequences over S of length at most n.
SeqsUpTo(S, n) == UNION {[1..k -> S] : k \in 0..n}

\* d.get(k, default)
DictGet(d, k, default) == IF k \in DOMAIN d THEN d[k] ELSE default

(***************************************************************************)
(* app/models.py: the schema defaults of GenerateConfig.                   *)
(***************************************************************************)
LyricsConfig ==
    [style |-> "poetic", rhyme_scheme |-> "ABAB", syllable_density |-> "med",
     keywords |-> <<>>]

MusicConfig ==
    [genre |-> "pop", fusion |-> <<>>, bpm |-> 120, key |-> "C", scale |-> "major",
     time_signature |-> "4/4", tempo_curve |-> "steady", chord_palette |-> "diatonic"]

InstrumentationConfig ==
    [lead_instrument |-> "piano", support_instruments |-> <<>>,
     percussion_style |-> "acoustic", hooks |-> <<>>]

VocalConfig ==
    [vocal_gender |-> "female", vocal_register |-> "airy", multilayer |-> <<>>,
     language_split |-> [tr |-> 100]]

StructureConfig ==
    [form |-> <<"intro", "v1", "ch", "v2", "ch", "bridge", "ch", "outro">>,
     drop_type |-> None, duration_sec |-> 150, stems |-> <<"master">>]

MixBusConfig == [glue_comp |-> "light", tape_sat |-> FALSE]

MasteringConfig == [target_lufs |-> -14, stereo_width |-> 60, limiter |-> "balanced"]

ProductionConfig ==
    [mix_bus |-> MixBusConfig, vocals_fx |-> <<>>, mastering |-> MasteringConfig,
     fx_sfx |-> <<>>]

\* creativity 0.5, guidance 7.5, repetition_penalty 1.0, in hundredths
\* Optional[int]: the int n is Seed(n) and None is NoSeed (an int and None are not
\* comparable values, two sequences are)
NoSeed == <<>>
Seed(n) == <<n>>

AIConfig == [seed |-> NoSeed, creativity |-> 50, guidance |-> 750, repetition_penalty |-> 100]

\* theme and music.genre are required; the model fixes them to "love" and "pop"
\* wherever a specification does not vary them.
GenerateConfig ==
    [theme |-> "love", subtheme |-> None, language |-> <<"tr">>, persona |-> None,
     explicit_ok |-> FALSE, lyrics |-> LyricsConfig, music |-> MusicConfig,
     instrumentation |-> InstrumentationConfig, vocal |-> VocalConfig,
     structure |-> StructureConfig, production |-> ProductionConfig, ai |-> AIConfig]

\* Field ranges of the schema (ge/le of StructureConfig, MasteringConfig, AIConfig).
DurationRange == 30..300
LufsRange == -20..-6
WidthRange == 0..100
Limiters == {"transparent", "balanced", "brick"}
CreativityRange == 0..100
VocalGenders == {"female", "male", "nonbinary", "duet"}
VocalRegisters == {"airy", "chesty", "breathy", "powerful", "soft"}

\* The field constraints of the schema on the fields the model varies.
\* sum(v.values())
RECURSIVE SumValues(_)
SumValues(v) ==
    IF DOMAIN v = {} THEN 0
    ELSE LET k == CHOOSE x \in DOMAIN v : TRUE
         IN  v[k] + SumValues([x \in DOMAIN v \ {k} |-> v[x]])

ValueError(msg) == [outcome |-> "raised", error |-> msg]
Returned(v) == [outcome |-> "returned", value |-> v]

\* validate_language_split refusing only a total above 100
validate_language_split_at_most(v) ==
    LET total == SumValues(v)
    IN  IF total > 100
        THEN ValueError([text |-> "Language split must sum to 100, got", total |-> total])
        ELSE Returned(v)

\* VocalConfig.validate_language_split
validate_language_split(v) ==
    LET total == SumValues(v)
    IN  IF total # 100
        THEN ValueError([text |-> "Language split must sum to 100, got", total |-> total])
        ELSE Returned(v)

\* GenerateConfig built from a request body r that gives theme and music.genre and
\* may give language and vocal.language_split: a field validator runs on a given
\* value only, a missing field takes its default, and language is any list of str.
GenerateConfig_from(r) ==
    LET split == IF "language_split" \in r.given
                 THEN validate_language_split(r.language_split)
                 ELSE Returned(VocalConfig.language_split)
        language == IF "language" \in r.given THEN r.language ELSE GenerateConfig.language
    IN  IF split.outcome = "raised" THEN split
        ELSE Returned([GenerateConfig EXCEPT !.language = language,
                                             !.vocal.language_split = split.value])

SchemaValid(c) ==
    /\ c.structure.duration_sec \in DurationRange
    /\ c.production.mastering.target_lufs \in LufsRange
    /\ c.production.mastering.stereo_width \in WidthRange
    /\ c.production.mastering.limiter \in Limiters
    /\ c.ai.creativity \in CreativityRange
    /\ c.vocal.vocal_gender \in VocalGenders
    /\ c.vocal.vocal_register \in VocalRegisters

(***************************************************************************)
(* app/feature_flags.py                                                    *)
(***************************************************************************)
PlanType == {"free", "pro", "studio", "label"}

PLAN_LIMITS ==
    [free |->
        [max_duration |-> 90,
         allowed_stems |-> <<"master">>,
         mastering_controls |-> FALSE,
         max_creativity |-> 50,
         batch_allowed |-> FALSE],
     pro |->
        [max_duration |-> 150,
         allowed_stems |-> <<"master", "vocals", "instrumental">>,
         mastering_controls |-> FALSE,
         max_creativity |-> 75,
         batch_allowed |-> FALSE],
     studio |->
        [max_duration |-> 210,
         allowed_stems |-> <<"master", "vocals", "drums", "bass", "instruments", "fx">>,
         mastering_controls |-> TRUE,
         max_creativity |-> 100,
         batch_allowed |-> FALSE],
     label |->
        [max_duration |-> 300,
         allowed_stems |-> <<"master", "vocals", "drums", "bass", "instruments", "fx", "midi">>,
         mastering_controls |-> TRUE,
         max_creativity |-> 100,
         batch_allowed |-> TRUE]]

\* The values validate_plan_limits compares the mastering block with.
default_lufs == -14
default_width == 60
default_limiter == "balanced"

\* validate_plan_limits returned None.
Passed == [outcome |-> "returned"]

\* raise HTTPException(status_code=400, detail=...); detail holds the template of
\* the message (check) and the values interpolated into it.
HTTPException(status_code, check, detail) ==
    [outcome |-> "raised", status_code |-> status_code, check |-> check, detail |-> detail]

\* the duration check with >= for >
duration_exceeded_ge(c, limits) == c.structure.duration_sec >= limits.max_duration

\* cfg.structure.duration_sec > limits["max_duration"]
duration_exceeded(c, limits) == c.structure.duration_sec > limits.max_duration

\* the stems check looking at the first requested stem only
invalid_stems_first_only(c, limits) ==
    ToSet(Take(c.structure.stems, 1)) \ ToSet(limits.allowed_stems)

\* set(cfg.structure.stems) - set(limits["allowed_stems"])
invalid_stems(c, limits) == ToSet(c.structure.stems) \ ToSet(limits.allowed_stems)

\* the mastering comparison without the limiter
mastering_customised_no_limiter(c) ==
    \/ c.production.mastering.target_lufs # default_lufs
    \/ c.production.mastering.stereo_width # default_width

\* the mastering block differs from the defaults
mastering_customised(c) ==
    \/ c.production.mastering.target_lufs # default_lufs
    \/ c.production.mastering.stereo_width # default_width
    \/ c.production.mastering.limiter # default_limiter

\* the creativity check with >= for >
creativity_exceeded_ge(c, limits) == c.ai.creativity >= limits.max_creativity

\* cfg.ai.creativity > limits["max_creativity"]
creativity_exceeded(c, limits) == c.ai.creativity > limits.max_creativity

\* The order in which a process iterates over a set of stem names follows the
\* hashes of the names, which the hash seed of the process fixes: one order for
\* seed 0, the opposite one for seed 1.
HashOrder ==
    IF hash_seed = 0
    THEN <<"bass", "choir", "drums", "fx", "instrumental", "instruments", "master",
           "midi", "vocals">>
    ELSE <<"vocals", "midi", "master", "instruments", "instrumental", "fx", "drums",
           "choir", "bass">>

\* What the f-string shows for a set: its elements in the order of iteration.
SetRepr(S) == SelectSeq(HashOrder, LAMBDA x : x \in S)

\* validate_plan_limits with the stems check ahead of the duration check
\* validate_plan_limits cutting an over-long duration down to the plan's maximum
validate_plan_limits_clamps(c, p) ==
    LET limits == tables.PLAN_LIMITS[p]
    IN  [cfg |-> IF c.structure.duration_sec > limits.max_duration
                 THEN [c EXCEPT !.structure.duration_sec = limits.max_duration]
                 ELSE c,
         PLAN_LIMITS |-> tables.PLAN_LIMITS]

\* validate_plan_limits recording the longest duration asked of a plan in the
\* plan's own entry of PLAN_LIMITS
validate_plan_limits_learns(c, p) ==
    [cfg |-> c,
     PLAN_LIMITS |->
        [tables.PLAN_LIMITS EXCEPT ![p].max_duration =
            IF c.structure.duration_sec > @ THEN c.structure.duration_sec ELSE @]]

\* The objects validate_plan_limits was handed, after the call: it reads cfg and
\* limits = PLAN_LIMITS[plan] and assigns to neither (the stems difference is taken
\* on two fresh sets).
validate_plan_limits_leaves(c, p) ==
    [cfg |-> c, PLAN_LIMITS |-> tables.PLAN_LIMITS]

validate_plan_limits_stems_first(c, p) ==
    LET limits == tables.PLAN_LIMITS[p] IN
    IF invalid_stems(c, limits) # {} THEN
        HTTPException(400, "stems",
            [invalid_stems |-> invalid_stems(c, limits),
             invalid_stems_repr |-> SetRepr(invalid_stems(c, limits)), plan |-> p,
             allowed_stems |-> limits.allowed_stems])
    ELSE IF duration_exceeded(c, limits) THEN
        HTTPException(400, "duration",
            [duration_sec |-> c.structure.duration_sec, plan |-> p,
             max_duration |-> limits.max_duration])
    ELSE IF ~limits.mastering_controls /\ mastering_customised(c) THEN
        HTTPException(400, "mastering", [plan |-> p])
    ELSE IF creativity_exceeded(c, limits) THEN
        HTTPException(400, "creativity",
            [creativity |-> c.ai.creativity, plan |-> p,
             max_creativity |-> limits.max_creativity])
    ELSE Passed

\* The value of a call validate_plan_limits(cfg, plan): None or the raised error.
validate_plan_limits(c, p) ==
    LET limits == tables.PLAN_LIMITS[p] IN
    IF duration_exceeded(c, limits) THEN
        HTTPException(400, "duration",
            [duration_sec |-> c.structure.duration_sec, plan |-> p,
             max_duration |-> limits.max_duration])
    ELSE IF invalid_stems(c, limits) # {} THEN
        HTTPException(400, "stems",
            [invalid_stems |-> invalid_stems(c, limits),
             invalid_stems_repr |-> SetRepr(invalid_stems(c, limits)), plan |-> p,
             allowed_stems |-> limits.allowed_stems])
    ELSE IF ~limits.mastering_controls /\ mastering_customised(c) THEN
        HTTPException(400, "mastering", [plan |-> p])
    ELSE IF creativity_exceeded(c, limits) THEN
        HTTPException(400, "creativity",
            [creativity |-> c.ai.creativity, plan |-> p,
             max_creativity |-> limits.max_creativity])
    ELSE Passed

(***************************************************************************)
(* app/mapping.py                                                          *)
(***************************************************************************)
GENRE_MAP ==
    [pop |-> "pop", rnb |-> "rnb", trap |-> "trap", edm |-> "edm", indie |-> "indie",
     lofi |-> "lofi", synthwave |-> "synthwave", cinematic |-> "cinematic",
     world |-> "world", reggaeton |-> "reggaeton", rock |-> "rock", folk |-> "folk",
     jazz |-> "jazz", classical |-> "classical", hiphop |-> "hiphop", blues |-> "blues",
     country |-> "country", metal |-> "metal"]

FUSION_TAGS ==
    [turkish_makam |-> "anatolian_flavor", synthwave |-> "synthwave",
     afrobeat |-> "afrobeat", latin |-> "latin_fusion", oriental |-> "oriental_fusion"]

INSTRUMENT_PRESET_MAP ==
    <<"piano", "pad", "808">> :> "piano_pad_pop" @@
    <<"piano", "strings">> :> "piano_strings_cinematic" @@
    <<"guitar", "pad">> :> "guitar_ambient" @@
    <<"baglama">> :> "anatolian_pop" @@
    <<"baglama", "davul", "ney">> :> "turkish_traditional" @@
    <<"synth", "bass", "drums">> :> "synth_pop" @@
    <<"guitar", "bass", "drums">> :> "rock_standard" @@
    <<"piano", "violin">> :> "classical_duet" @@
    <<"808", "hi_hat", "clap">> :> "trap_minimal"

VOICE_PRESET_MAP ==
    <<"female", "airy", "duet">> :> "female_soft_airy_duet" @@
    <<"female", "airy", None>> :> "female_soft_airy" @@
    <<"female", "chesty", None>> :> "female_chest_pop" @@
    <<"female", "powerful", None>> :> "female_powerful_belt" @@
    <<"female", "breathy", None>> :> "female_breathy_intimate" @@
    <<"female", "soft", None>> :> "female_soft_ballad" @@
    <<"male", "airy", None>> :> "male_soft_airy" @@
    <<"male", "chesty", None>> :> "male_chest_pop" @@
    <<"male", "powerful", None>> :> "male_powerful_rock" @@
    <<"male", "breathy", None>> :> "male_breathy_rnb" @@
    <<"male", "soft", None>> :> "male_soft_folk" @@
    <<"duet", "airy", None>> :> "duet_soft_airy" @@
    <<"duet", "chesty", None>> :> "duet_balanced" @@
    <<"nonbinary", "airy", None>> :> "androgynous_airy"

\* Python's order of str (by code point) on the instrument names the model uses:
\* a digit sorts before every lowercase letter.
StrOrder ==
    <<"808", "bass", "clap", "davul", "drums", "hi_hat", "ney", "pad", "strings",
      "violin", "zurna">>

StrRank(x) == CHOOSE i \in 1..Len(StrOrder) : StrOrder[i] = x

\* x <= y for str
StrLeq(x, y) == StrRank(x) <= StrRank(y)

\* sorted(xs): insertion of each element, in turn, into the sorted rest
RECURSIVE Insert(_, _)
Insert(x, ys) ==
    IF Len(ys) = 0 THEN <<x>>
    ELSE IF StrLeq(x, Head(ys)) THEN <<x>> \o ys
    ELSE <<Head(ys)>> \o Insert(x, Tail(ys))

RECURSIVE sorted(_)
\* a sorted that returns the list in the order given
sorted_as_given(xs) == xs

sorted(xs) == IF Len(xs) = 0 THEN <<>> ELSE Insert(Head(xs), sorted(Tail(xs)))

\* bool(x) of an Optional[str]: None and "" are false
Truthy(x) == x # None /\ x # ""

to_key_signature(key, scale) == key \o " " \o scale

\* the list of parts with the Keywords part appended for an empty list too
lyrics_parts_always_keywords(c) ==
    <<"Theme: " \o c.theme>>
    \o (IF Truthy(c.subtheme) THEN <<"Subtheme: " \o c.subtheme>> ELSE <<>>)
    \o (IF Truthy(c.persona) THEN <<"Persona: " \o c.persona>> ELSE <<>>)
    \o <<"Keywords: " \o Join(c.lyrics.keywords, ", ")>>
    \o <<"Style: " \o c.lyrics.style>>
    \o <<"Rhyme: " \o c.lyrics.rhyme_scheme>>
    \o <<"Language: " \o Join(c.language, ", ")>>

\* the local list parts of build_lyrics_prompt, after its last append
lyrics_parts(c) ==
    <<"Theme: " \o c.theme>>
    \o (IF Truthy(c.subtheme) THEN <<"Subtheme: " \o c.subtheme>> ELSE <<>>)
    \o (IF Truthy(c.persona) THEN <<"Persona: " \o c.persona>> ELSE <<>>)
    \o (IF Len(c.lyrics.keywords) > 0
        THEN <<"Keywords: " \o Join(c.lyrics.keywords, ", ")>> ELSE <<>>)
    \o <<"Style: " \o c.lyrics.style>>
    \o <<"Rhyme: " \o c.lyrics.rhyme_scheme>>
    \o <<"Language: " \o Join(c.language, ", ")>>

build_lyrics_prompt(c) == Join(lyrics_parts(c), " | ")

\* choose_instrument_preset trying the lead-only key before the full key
choose_instrument_preset_lead_first(c) ==
    LET inst == c.instrumentation
        key_tuple == <<inst.lead_instrument>> \o sorted(inst.support_instruments)
        lead_only == <<inst.lead_instrument>>
        support_str ==
            IF Len(inst.support_instruments) > 0
            THEN Join(Take(sorted(inst.support_instruments), 2), "_")
            ELSE "solo"
    IN  IF lead_only \in DOMAIN tables.INSTRUMENT_PRESET_MAP THEN tables.INSTRUMENT_PRESET_MAP[lead_only]
        ELSE IF key_tuple \in DOMAIN tables.INSTRUMENT_PRESET_MAP
             THEN tables.INSTRUMENT_PRESET_MAP[key_tuple]
        ELSE inst.lead_instrument \o "_" \o support_str \o "_" \o c.music.genre

\* choose_instrument_preset whose last branch returns the lead's name alone
choose_instrument_preset_bare_lead(c) ==
    LET inst == c.instrumentation
        key_tuple == <<inst.lead_instrument>> \o sorted(inst.support_instruments)
        lead_only == <<inst.lead_instrument>>
    IN  IF key_tuple \in DOMAIN tables.INSTRUMENT_PRESET_MAP THEN tables.INSTRUMENT_PRESET_MAP[key_tuple]
        ELSE IF lead_only \in DOMAIN tables.INSTRUMENT_PRESET_MAP
             THEN tables.INSTRUMENT_PRESET_MAP[lead_only]
        ELSE inst.lead_instrument

choose_instrument_preset(c) ==
    LET inst == c.instrumentation
        key_tuple == <<inst.lead_instrument>> \o sorted(inst.support_instruments)
        lead_only == <<inst.lead_instrument>>
        support_str ==
            IF Len(inst.support_instruments) > 0
            THEN Join(Take(sorted(inst.support_instruments), 2), "_")
            ELSE "solo"
    IN  IF key_tuple \in DOMAIN tables.INSTRUMENT_PRESET_MAP THEN tables.INSTRUMENT_PRESET_MAP[key_tuple]
        ELSE IF lead_only \in DOMAIN tables.INSTRUMENT_PRESET_MAP
             THEN tables.INSTRUMENT_PRESET_MAP[lead_only]
        ELSE inst.lead_instrument \o "_" \o support_str \o "_" \o c.music.genre

\* choose_voice_preset without the (gender, register, None) step
choose_voice_preset_no_fallback(c) ==
    LET vocal == c.vocal
        gender == IF c.persona = "duet" THEN c.persona ELSE vocal.vocal_gender
        register == vocal.vocal_register
        persona == IF c.persona # "duet" THEN c.persona ELSE None
        key == <<gender, register, persona>>
    IN  IF key \in DOMAIN tables.VOICE_PRESET_MAP THEN tables.VOICE_PRESET_MAP[key]
        ELSE gender \o "_" \o register \o "_" \o c.music.genre

\* choose_voice_preset keeping vocal_gender and the persona for a duet
choose_voice_preset_keeps_gender(c) ==
    LET vocal == c.vocal
        gender == vocal.vocal_gender
        register == vocal.vocal_register
        persona == c.persona
        key == <<gender, register, persona>>
        fallback_key == <<gender, register, None>>
    IN  IF key \in DOMAIN tables.VOICE_PRESET_MAP THEN tables.VOICE_PRESET_MAP[key]
        ELSE IF fallback_key \in DOMAIN tables.VOICE_PRESET_MAP THEN tables.VOICE_PRESET_MAP[fallback_key]
        ELSE gender \o "_" \o register \o "_" \o c.music.genre

\* choose_voice_preset taking every persona, not only "duet", as the gender
choose_voice_preset_persona_as_gender(c) ==
    LET vocal == c.vocal
        gender == IF c.persona # None THEN c.persona ELSE vocal.vocal_gender
        register == vocal.vocal_register
        key == <<gender, register, None>>
    IN  IF key \in DOMAIN tables.VOICE_PRESET_MAP THEN tables.VOICE_PRESET_MAP[key]
        ELSE gender \o "_" \o register \o "_" \o c.music.genre

choose_voice_preset(c) ==
    LET vocal == c.vocal
        gender == IF c.persona = "duet" THEN c.persona ELSE vocal.vocal_gender
        register == vocal.vocal_register
        persona == IF c.persona # "duet" THEN c.persona ELSE None
        key == <<gender, register, persona>>
        fallback_key == <<gender, register, None>>
    IN  IF key \in DOMAIN tables.VOICE_PRESET_MAP THEN tables.VOICE_PRESET_MAP[key]
        ELSE IF fallback_key \in DOMAIN tables.VOICE_PRESET_MAP THEN tables.VOICE_PRESET_MAP[fallback_key]
        ELSE gender \o "_" \o register \o "_" \o c.music.genre

\* merge_genre_fusion joining every fusion tag
merge_genre_fusion_all_tags(genre, fusion) ==
    LET base == DictGet(tables.GENRE_MAP, genre, genre)
        fusion_tags == [i \in 1..Len(fusion) |-> DictGet(tables.FUSION_TAGS, fusion[i], fusion[i])]
    IN  IF Len(fusion) = 0 THEN base
        ELSE base \o "_" \o Join(fusion_tags, "_")

merge_genre_fusion(genre, fusion) ==
    LET base == DictGet(tables.GENRE_MAP, genre, genre)
        fusion_tags == [i \in 1..Len(fusion) |-> DictGet(tables.FUSION_TAGS, fusion[i], fusion[i])]
    IN  IF Len(fusion) = 0 THEN base
        ELSE base \o "_" \o Join(Take(fusion_tags, 2), "_")

\* map_to_music_api putting 0 for a seed that is None
map_to_music_api_seed_default(c) ==
    [lyrics_prompt |-> build_lyrics_prompt(c),
     genre |-> merge_genre_fusion(c.music.genre, c.music.fusion),
     bpm |-> c.music.bpm,
     key_signature |-> to_key_signature(c.music.key, c.music.scale),
     time_signature |-> c.music.time_signature,
     duration_seconds |-> c.structure.duration_sec,
     voice |-> choose_voice_preset(c),
     instrument_preset |-> choose_instrument_preset(c),
     hooks |-> c.instrumentation.hooks,
     mixing |-> [tape_sat |-> c.production.mix_bus.tape_sat,
                 glue_comp |-> c.production.mix_bus.glue_comp],
     vocals_fx |-> c.production.vocals_fx,
     mastering |-> [target_lufs |-> c.production.mastering.target_lufs,
                    stereo_width |-> c.production.mastering.stereo_width,
                    limiter |-> c.production.mastering.limiter],
     stems |-> c.structure.stems,
     fx_sfx |-> c.production.fx_sfx,
     seed |-> IF c.ai.seed = NoSeed THEN Seed(0) ELSE c.ai.seed,
     creativity |-> c.ai.creativity,
     guidance |-> c.ai.guidance,
     repetition_penalty |-> c.ai.repetition_penalty,
     safety |-> [explicit_ok |-> c.explicit_ok]]

\* map_to_music_api always asking for the longest duration of the schema
map_to_music_api_full_length(c) ==
    [map_to_music_api_seed_default(c) EXCEPT !.seed = c.ai.seed, !.duration_seconds = 300]

\* map_to_music_api numbering the unseeded assemblies of the process
map_to_music_api_counts_calls(c) ==
    [map_to_music_api_seed_default(c) EXCEPT
        !.seed = IF c.ai.seed # NoSeed THEN c.ai.seed
                 ELSE IF payload = NoPayload THEN NoSeed ELSE Seed(1)]

map_to_music_api(c) ==
    [lyrics_prompt |-> build_lyrics_prompt(c),
     genre |-> merge_genre_fusion(c.music.genre, c.music.fusion),
     bpm |-> c.music.bpm,
     key_signature |-> to_key_signature(c.music.key, c.music.scale),
     time_signature |-> c.music.time_signature,
     duration_seconds |-> c.structure.duration_sec,
     voice |-> choose_voice_preset(c),
     instrument_preset |-> choose_instrument_preset(c),
     hooks |-> c.instrumentation.hooks,
     mixing |-> [tape_sat |-> c.production.mix_bus.tape_sat,
                 glue_comp |-> c.production.mix_bus.glue_comp],
     vocals_fx |-> c.production.vocals_fx,
     mastering |-> [target_lufs |-> c.production.mastering.target_lufs,
                    stereo_width |-> c.production.mastering.stereo_width,
                    limiter |-> c.production.mastering.limiter],
     stems |-> c.structure.stems,
     fx_sfx |-> c.production.fx_sfx,
     seed |-> c.ai.seed,
     creativity |-> c.ai.creativity,
     guidance |-> c.ai.guidance,
     repetition_penalty |-> c.ai.repetition_penalty,
     safety |-> [explicit_ok |-> c.explicit_ok]]

(***************************************************************************)
(* Inputs: the configs and plans the specifications start from. Each set   *)
(* holds schema-valid values only.                                         *)
(***************************************************************************)
\* the plan limits (90, 150, 210, 300), each limit plus one, and the schema minimum
Durations == {30, 90, 91, 150, 151, 210, 211, 300}

\* "choir" is in no plan's allowed_stems
StemNames == {"master", "vocals", "instrumental", "drums", "midi", "choir"}

\* the defaults, each field changed alone, and all changed
Masterings ==
    {MasteringConfig,
     [MasteringConfig EXCEPT !.target_lufs = -10],
     [MasteringConfig EXCEPT !.stereo_width = 80],
     [MasteringConfig EXCEPT !.limiter = "brick"],
     [target_lufs |-> -9, stereo_width |-> 100, limiter |-> "transparent"]}

\* each max_creativity (0.5, 0.75, 1.0) and 0.01 above
Creativities == {50, 51, 75, 76, 100}

PlanConfigs ==
    {[GenerateConfig EXCEPT !.structure.duration_sec = d, !.structure.stems = s,
                            !.production.mastering = m, !.ai.creativity = cr] :
        d \in Durations, s \in SeqsUpTo(StemNames, MaxStems), m \in Masterings,
        cr \in Creativities}

\* "kpop" is not a key of GENRE_MAP, "ska" is not a key of FUSION_TAGS
Genres == {"pop", "synthwave", "kpop"}
FusionNames == {"turkish_makam", "synthwave", "latin", "ska"}

GenreConfigs ==
    {[GenerateConfig EXCEPT !.music.genre = g, !.music.fusion = f] :
        g \in Genres, f \in SeqsUpTo(FusionNames, MaxFusion)}

\* "oud" leads no entry of INSTRUMENT_PRESET_MAP, "zurna" supports none
LeadInstruments == {"piano", "guitar", "baglama", "synth", "808", "oud"}
SupportInstruments == ToSet(StrOrder)

InstrumentConfigs ==
    {[GenerateConfig EXCEPT !.instrumentation.lead_instrument = l,
                            !.instrumentation.support_instruments = sup,
                            !.music.genre = g] :
        l \in LeadInstruments, sup \in SeqsUpTo(SupportInstruments, MaxSupport),
        g \in {"pop", "kpop"}}

Personas == {None, "duet", "storyteller", ""}

\* theme is any str, subtheme and persona any Optional[str], the empty str included;
\* language is any list of str: the schema puts no length on it
Themes == {"love", ""}
Subthemes == {None, "", "heartbreak"}
KeywordNames == {"sea", "night"}
LanguageNames == {"tr", "en"}

PromptConfigs ==
    {[GenerateConfig EXCEPT !.theme = t, !.subtheme = st, !.persona = p,
                            !.lyrics.keywords = k, !.language = l] :
        t \in Themes, st \in Subthemes, p \in Personas,
        k \in SeqsUpTo(KeywordNames, MaxKeywords), l \in SeqsUpTo(LanguageNames, MaxLanguages)}

\* Configs for the calls of the assembler and the validator: every field the
\* payload copies takes several values; the blocks are combined freely.
MusicBlocks ==
    {MusicConfig,
     [MusicConfig EXCEPT !.genre = "kpop", !.fusion = <<"latin", "ska", "synthwave">>,
                         !.bpm = 40, !.key = "F#", !.scale = "dorian",
                         !.time_signature = "3/4"],
     [MusicConfig EXCEPT !.fusion = <<"synthwave">>, !.bpm = 200, !.key = "Bb",
                         !.scale = "minor", !.time_signature = "6/8"]}

\* the default (150 s, master), the schema extremes, a stem no plan allows (with a
\* repeat), an empty stem list, two stems most plans refuse
StructureBlocks ==
    {StructureConfig,
     [StructureConfig EXCEPT !.duration_sec = 300, !.stems = <<"choir", "master", "choir">>],
     [StructureConfig EXCEPT !.duration_sec = 30, !.stems = <<>>],
     [StructureConfig EXCEPT !.duration_sec = 90, !.stems = <<"vocals", "master">>],
     [StructureConfig EXCEPT !.duration_sec = 30, !.stems = <<"midi", "choir">>]}

ProductionBlocks ==
    {ProductionConfig,
     [mix_bus |-> [glue_comp |-> "heavy", tape_sat |-> TRUE],
      vocals_fx |-> <<"reverb", "delay">>,
      mastering |-> [target_lufs |-> -6, stereo_width |-> 100, limiter |-> "brick"],
      fx_sfx |-> <<"rain">>]}

\* seed 0 is an int, not None
AIBlocks ==
    {AIConfig,
     [seed |-> Seed(42), creativity |-> 100, guidance |-> 2000, repetition_penalty |-> 0],
     [seed |-> Seed(0), creativity |-> 0, guidance |-> 100, repetition_penalty |-> 200]}

InstrumentationBlocks ==
    {InstrumentationConfig,
     [InstrumentationConfig EXCEPT !.lead_instrument = "oud", !.hooks = <<"whistle", "clap">>],
     [InstrumentationConfig EXCEPT !.lead_instrument = "baglama",
                                   !.support_instruments = <<"ney", "davul">>],
     [InstrumentationConfig EXCEPT !.lead_instrument = "",
                                   !.support_instruments = <<"zurna", "pad", "808">>]}

\* <<persona, explicit_ok, vocal_gender, vocal_register>>
VoiceBlocks ==
    {<<None, FALSE, "female", "airy">>,
     <<"duet", TRUE, "male", "soft">>,
     <<"storyteller", TRUE, "nonbinary", "powerful">>}

CallConfigs ==
    {[GenerateConfig EXCEPT !.music = m, !.structure = st, !.production = pr, !.ai = a,
                            !.instrumentation = i, !.persona = v[1], !.explicit_ok = v[2],
                            !.vocal.vocal_gender = v[3], !.vocal.vocal_register = v[4]] :
        m \in MusicBlocks, st \in StructureBlocks, pr \in ProductionBlocks,
        a \in AIBlocks, i \in InstrumentationBlocks, v \in VoiceBlocks}

\* Two processes may order the same set of str differently.
HashSeeds == {0, 1}

VoiceConfigs ==
    {[GenerateConfig EXCEPT !.persona = p, !.vocal.vocal_gender = g,
                            !.vocal.vocal_register = r, !.music.genre = mg] :
        p \in Personas, g \in VocalGenders, r \in VocalRegisters, mg \in {"pop", "kpop"}}

\* The module-level dicts as the import of the two modules leaves them.
ModuleTables ==
    [PLAN_LIMITS |-> PLAN_LIMITS, GENRE_MAP |-> GENRE_MAP, FUSION_TAGS |-> FUSION_TAGS,
     INSTRUMENT_PRESET_MAP |-> INSTRUMENT_PRESET_MAP, VOICE_PRESET_MAP |-> VOICE_PRESET_MAP]

\* The request body is not modelled: cfg is the validated config.
NoRequest == [body |-> "not modelled"]

\* no route handler has run: the task store is empty as at import, nothing is queued
NoHttp == [route |-> "none"]
WebIdle == processing_tasks = <<>> /\ jobs = <<>> /\ http = NoHttp

\* no GenerateConfig instance: none was built yet, or building one raised
NoConfig == [instance |-> FALSE]

Percentages == {-50, 0, 40, 50, 60, 100, 150}
LanguageSplits ==
    UNION {[d -> Percentages] : d \in SUBSET {"tr", "en"}}
LanguageLists == {<<>>, <<"tr">>, <<"en", "tr">>, <<"tr", "tr">>}

RawRequests ==
    {[given |-> {"language", "language_split"}, language |-> l, language_split |-> v] :
        l \in LanguageLists, v \in LanguageSplits}
    \cup {[given |-> {"language"}, language |-> l, language_split |-> <<>>] :
        l \in LanguageLists}
    \cup {[given |-> {"language_split"}, language |-> <<>>, language_split |-> v] :
        v \in LanguageSplits}
    \cup {[given |-> {}, language |-> <<>>, language_split |-> <<>>]}

\* The config was validated by the schema layer, nothing has been called on it yet.
Fresh ==
    /\ verdict = NoVerdict
    /\ merged_genre = NotCalled
    /\ instrument_preset = NotCalled
    /\ voice = NotCalled
    /\ payload = NoPayload
    /\ pc = "received"
    /\ sent = NoPayload
    /\ tables = ModuleTables
    /\ raw = NoRequest
    /\ parsed = "accepted"
    /\ parts = <<>>
    /\ lyrics_prompt = NotCalled
    /\ verdict_again = NoVerdict
    /\ payload_again = NoPayload
    /\ wk = <<>>
    /\ WebIdle

(***************************************************************************)
(* Calls of the public functions on the request's config.                  *)
(***************************************************************************)
\* The request body becomes a GenerateConfig, or the validation error ends the
\* request.
ParseRequest ==
    /\ parsed = "pending"
    /\ LET built == GenerateConfig_from(raw)
       IN  IF built.outcome = "raised"
           THEN parsed' = "rejected" /\ cfg' = cfg
           ELSE parsed' = "accepted" /\ cfg' = built.value
    /\ UNCHANGED <<plan, verdict, merged_genre, instrument_preset, voice, payload, pc, sent,
                   procVars, raw, promptVars, repeatVars, wk, webVars>>

ValidatePlanLimits ==
    /\ parsed = "accepted"
    /\ verdict = NoVerdict
    /\ verdict' = validate_plan_limits(cfg, plan)
    /\ cfg' = validate_plan_limits_leaves(cfg, plan).cfg
    /\ tables' = [tables EXCEPT !.PLAN_LIMITS = validate_plan_limits_leaves(cfg, plan).PLAN_LIMITS]
    /\ UNCHANGED <<plan, merged_genre, instrument_preset, voice, payload, pc, sent, hash_seed,
                   schemaVars, promptVars, repeatVars, wk, webVars>>

MergeGenreFusion ==
    /\ merged_genre = NotCalled
    /\ merged_genre' = merge_genre_fusion(cfg.music.genre, cfg.music.fusion)
    /\ UNCHANGED <<cfg, plan, verdict, instrument_preset, voice, payload, pc, sent, otherVars>>

ChooseInstrumentPreset ==
    /\ instrument_preset = NotCalled
    /\ instrument_preset' = choose_instrument_preset(cfg)
    /\ UNCHANGED <<cfg, plan, verdict, merged_genre, voice, payload, pc, sent, otherVars>>

ChooseVoicePreset ==
    /\ voice = NotCalled
    /\ voice' = choose_voice_preset(cfg)
    /\ UNCHANGED <<cfg, plan, verdict, merged_genre, instrument_preset, payload, pc, sent, otherVars>>

BuildLyricsPrompt ==
    /\ parsed = "accepted"
    /\ lyrics_prompt = NotCalled
    /\ parts' = lyrics_parts(cfg)
    /\ lyrics_prompt' = build_lyrics_prompt(cfg)
    /\ UNCHANGED <<cfg, plan, verdict, merged_genre, instrument_preset, voice, payload, pc,
                   sent, procVars, schemaVars, repeatVars, wk, webVars>>

MapToMusicApi ==
    /\ parsed = "accepted"
    /\ payload = NoPayload
    /\ payload' = map_to_music_api(cfg)
    /\ UNCHANGED <<cfg, plan, verdict, merged_genre, instrument_preset, voice, pc, sent,
                   otherVars>>

\* A second call with the same arguments, at any later moment.
ValidatePlanLimitsAgain ==
    /\ verdict # NoVerdict
    /\ verdict_again = NoVerdict
    /\ verdict_again' = validate_plan_limits(cfg, plan)
    /\ cfg' = validate_plan_limits_leaves(cfg, plan).cfg
    /\ tables' = [tables EXCEPT !.PLAN_LIMITS = validate_plan_limits_leaves(cfg, plan).PLAN_LIMITS]
    /\ UNCHANGED <<plan, verdict, merged_genre, instrument_preset, voice, payload, pc,
                   sent, hash_seed, schemaVars, promptVars, payload_again, wk, webVars>>

MapToMusicApiAgain ==
    /\ payload # NoPayload
    /\ payload_again = NoPayload
    /\ payload_again' = map_to_music_api(cfg)
    /\ UNCHANGED <<cfg, plan, verdict, merged_genre, instrument_preset, voice, payload, pc,
                   sent, procVars, schemaVars, promptVars, verdict_again, wk, webVars>>

InitPlan == cfg \in PlanConfigs /\ SchemaValid(cfg) /\ plan \in PlanType /\ hash_seed \in HashSeeds /\ Fresh
NextPlan == ValidatePlanLimits
SpecPlan == InitPlan /\ [][NextPlan]_vars

InitGenre == cfg \in GenreConfigs /\ SchemaValid(cfg) /\ plan = "free" /\ hash_seed = 0 /\ Fresh
NextGenre == MergeGenreFusion
SpecGenre == InitGenre /\ [][NextGenre]_vars

InitInstrument == cfg \in InstrumentConfigs /\ SchemaValid(cfg) /\ plan = "free" /\ hash_seed = 0 /\ Fresh
NextInstrument == ChooseInstrumentPreset
SpecInstrument == InitInstrument /\ [][NextInstrument]_vars

InitVoice == cfg \in VoiceConfigs /\ SchemaValid(cfg) /\ plan = "free" /\ hash_seed = 0 /\ Fresh
NextVoice == ChooseVoicePreset
SpecVoice == InitVoice /\ [][NextVoice]_vars

InitPrompt == cfg \in PromptConfigs /\ SchemaValid(cfg) /\ plan = "free" /\ hash_seed = 0 /\ Fresh
NextPrompt == BuildLyricsPrompt
SpecPrompt == InitPrompt /\ [][NextPrompt]_vars

\* A request body is validated into a config, which the core functions then take.
InitSchema ==
    /\ raw \in RawRequests
    /\ parsed = "pending"
    /\ cfg = NoConfig
    /\ plan \in {"free", "label"}
    /\ hash_seed = 0
    /\ verdict = NoVerdict /\ merged_genre = NotCalled /\ instrument_preset = NotCalled
    /\ voice = NotCalled /\ payload = NoPayload /\ pc = "received" /\ sent = NoPayload
    /\ tables = ModuleTables /\ parts = <<>> /\ lyrics_prompt = NotCalled
    /\ verdict_again = NoVerdict /\ payload_again = NoPayload /\ wk = <<>>
    /\ WebIdle
NextSchema ==
    \/ ParseRequest
    \/ ValidatePlanLimits
    \/ BuildLyricsPrompt
    \/ MapToMusicApi
SpecSchema == InitSchema /\ [][NextSchema]_vars

(***************************************************************************)
(* Workers of one process call validate_plan_limits and map_to_music_api   *)
(* at the same time, each on its own config. A call advances one statement *)
(* at a time (pc names the statement to run next) and reads the module     *)
(* dicts when the statement runs.                                          *)
(***************************************************************************)
Workers == 1..NWorkers

WorkerConfigs ==
    {GenerateConfig,
     [GenerateConfig EXCEPT !.structure.duration_sec = 300,
                            !.structure.stems = <<"master", "choir">>,
                            !.music.genre = "kpop", !.music.fusion = <<"latin">>],
     [GenerateConfig EXCEPT !.production.mastering.limiter = "brick",
                            !.ai.creativity = 100,
                            !.instrumentation.lead_instrument = "baglama",
                            !.instrumentation.support_instruments = <<"ney", "davul">>,
                            !.persona = "duet"]}

WorkerStart(op) == IF op = "validate" THEN "duration" ELSE "genre"

WorkerInputs ==
    {[cfg |-> c, plan |-> p, op |-> "validate", pc |-> WorkerStart("validate"),
      verdict |-> NoVerdict, genre |-> NotCalled, voice |-> NotCalled, payload |-> NoPayload] :
        c \in WorkerConfigs, p \in {"free", "studio"}}
    \cup
    {[cfg |-> c, plan |-> "free", op |-> "assemble", pc |-> WorkerStart("assemble"),
      verdict |-> NoVerdict, genre |-> NotCalled, voice |-> NotCalled, payload |-> NoPayload] :
        c \in WorkerConfigs}

\* the check of validate_plan_limits named by pc fires
plan_check(name, c, p) ==
    LET limits == tables.PLAN_LIMITS[p]
    IN  CASE name = "duration" -> duration_exceeded(c, limits)
          [] name = "stems" -> invalid_stems(c, limits) # {}
          [] name = "mastering" -> ~limits.mastering_controls /\ mastering_customised(c)
          [] name = "creativity" -> creativity_exceeded(c, limits)

NextCheck(name) ==
    CASE name = "duration" -> "stems"
      [] name = "stems" -> "mastering"
      [] name = "mastering" -> "creativity"
      [] name = "creativity" -> "done"

\* One check of validate_plan_limits in worker w: it raises, or falls through to the
\* next check, the last one to the return.
WorkerCheck(w) ==
    /\ wk[w].op = "validate"
    /\ wk[w].pc \in {"duration", "stems", "mastering", "creativity"}
    /\ LET me == wk[w]
           after == validate_plan_limits_leaves(me.cfg, me.plan)
       IN  /\ wk' = [wk EXCEPT ![w] =
                    IF plan_check(me.pc, me.cfg, me.plan)
                    THEN [me EXCEPT !.pc = "done", !.cfg = after.cfg,
                                    !.verdict = validate_plan_limits(me.cfg, me.plan)]
                    ELSE IF NextCheck(me.pc) = "done"
                    THEN [me EXCEPT !.pc = "done", !.cfg = after.cfg, !.verdict = Passed]
                    ELSE [me EXCEPT !.pc = NextCheck(me.pc), !.cfg = after.cfg]]
           /\ tables' = [tables EXCEPT !.PLAN_LIMITS = after.PLAN_LIMITS]
    /\ UNCHANGED <<cfg, plan, verdict, merged_genre, instrument_preset, voice, payload, pc,
                   sent, hash_seed, schemaVars, promptVars, repeatVars, webVars>>

\* The arguments of ElevenLabsPayload(...) are evaluated in order: genre reads
\* GENRE_MAP and FUSION_TAGS,
WorkerGenre(w) ==
    /\ wk[w].op = "assemble"
    /\ wk[w].pc = "genre"
    /\ wk' = [wk EXCEPT ![w].genre = merge_genre_fusion(wk[w].cfg.music.genre,
                                                         wk[w].cfg.music.fusion),
                        ![w].pc = "voice"]
    /\ UNCHANGED <<cfg, plan, verdict, merged_genre, instrument_preset, voice, payload, pc,
                   sent, procVars, schemaVars, promptVars, repeatVars, webVars>>

\* voice reads VOICE_PRESET_MAP,
WorkerVoice(w) ==
    /\ wk[w].op = "assemble"
    /\ wk[w].pc = "voice"
    /\ wk' = [wk EXCEPT ![w].voice = choose_voice_preset(wk[w].cfg), ![w].pc = "instrument"]
    /\ UNCHANGED <<cfg, plan, verdict, merged_genre, instrument_preset, voice, payload, pc,
                   sent, procVars, schemaVars, promptVars, repeatVars, webVars>>

\* instrument_preset reads INSTRUMENT_PRESET_MAP; the rest reads the config alone
\* and the payload is returned.
WorkerInstrument(w) ==
    /\ wk[w].op = "assemble"
    /\ wk[w].pc = "instrument"
    /\ wk' = [wk EXCEPT ![w].payload =
                            [map_to_music_api(wk[w].cfg) EXCEPT !.genre = wk[w].genre,
                                                                !.voice = wk[w].voice],
                        ![w].pc = "done"]
    /\ UNCHANGED <<cfg, plan, verdict, merged_genre, instrument_preset, voice, payload, pc,
                   sent, procVars, schemaVars, promptVars, repeatVars, webVars>>

InitWorkers ==
    /\ wk \in [Workers -> WorkerInputs]
    /\ cfg = GenerateConfig /\ plan = "free" /\ hash_seed = 0
    /\ raw = NoRequest /\ parsed = "accepted"
    /\ verdict = NoVerdict /\ merged_genre = NotCalled /\ instrument_preset = NotCalled
    /\ voice = NotCalled /\ payload = NoPayload /\ pc = "received" /\ sent = NoPayload
    /\ tables = ModuleTables /\ parts = <<>> /\ lyrics_prompt = NotCalled
    /\ verdict_again = NoVerdict /\ payload_again = NoPayload
    /\ WebIdle
NextWorkers ==
    \E w \in Workers :
        \/ WorkerCheck(w)
        \/ WorkerGenre(w)
        \/ WorkerVoice(w)
        \/ WorkerInstrument(w)
SpecWorkers == InitWorkers /\ [][NextWorkers]_vars

(***************************************************************************)
(* Asynchronous music tasks of api/routes/music.py. The handlers and the   *)
(* background job are coroutines of one event loop: a coroutine runs       *)
(* without interruption from one await to the next.                        *)
(***************************************************************************)
\* uuid4 values: the ones generate-async may draw, and one it never draws
TaskIds == 1..MaxTasks
UnknownId == 0

\* AudioProcessingStatus(task_id=..., status=..., progress=...): the declared fields
AudioProcessingStatus(task_id, status, progress) ==
    [task_id |-> task_id, status |-> status, progress |-> progress,
     estimated_completion |-> None, error_message |-> None]

\* obj.name = value on a pydantic model: a name that is not a declared field raises
\* ValueError, a declared one is assigned (without validation)
NoFieldError(name) == "\"AudioProcessingStatus\" object has no field \"" \o name \o "\""
SetAttr(obj, name, value) ==
    IF name \in DOMAIN obj
    THEN Returned([obj EXCEPT ![name] = value])
    ELSE ValueError(NoFieldError(name))

\* what `await elevenlabs_service.generate_music(request)` may do
MusicResponse == "music_response"
GenerationOutcomes ==
    {[kind |-> "returned", text |-> MusicResponse],
     [kind |-> "raised", text |-> "Error generating music: ElevenLabs Music API error: timeout"],
     [kind |-> "raised", text |-> "Prompt rejected by ElevenLabs safety rules."]}
NotAwaited == [kind |-> "not awaited", text |-> ""]

\* an except branch that records the message and leaves the status alone
background_except_keeps_status(rec, text) == [rec EXCEPT !.error_message = text]

\* except Exception as e: status = "failed"; error_message = str(e)
background_except(rec, text) == [rec EXCEPT !.status = "failed", !.error_message = text]

\* _generate_music_background up to its await: status, progress
background_start(rec) == [rec EXCEPT !.status = "processing", !.progress = 25]

\* _generate_music_background from the await on; out is what the call did. The
\* three assignments run in order and the first that raises enters the except
\* branch with the record as the earlier ones left it.
background_resume(rec, out) ==
    IF out.kind = "raised" THEN background_except(rec, out.text)
    ELSE LET a1 == SetAttr(rec, "status", "completed")
             a2 == SetAttr(a1.value, "progress", 100)
             a3 == SetAttr(a2.value, "result", out.text)
         IN  IF a1.outcome = "raised" THEN background_except(rec, a1.error)
             ELSE IF a2.outcome = "raised" THEN background_except(a1.value, a2.error)
             ELSE IF a3.outcome = "raised" THEN background_except(a2.value, a3.error)
             ELSE a3.value

\* a store whose jobs all write through one shared status object
store_shared(store, task_id, rec) ==
    [t \in DOMAIN store |-> [rec EXCEPT !.task_id = t]]

\* processing_tasks[task_id].<field> = ...: the job writes the record under its own key
store_own(store, task_id, rec) == [store EXCEPT ![task_id] = rec]

\* get_generation_status answering 404 until the task has left "pending"
get_generation_status_started_only(task_id) ==
    IF task_id \notin DOMAIN processing_tasks \/ processing_tasks[task_id].status = "pending"
    THEN [route |-> "status", task_id |-> task_id, status_code |-> 404,
          body |-> [detail |-> "Task not found"]]
    ELSE [route |-> "status", task_id |-> task_id, status_code |-> 200,
          body |-> processing_tasks[task_id]]

\* get_generation_status
get_generation_status(task_id) ==
    IF task_id \notin DOMAIN processing_tasks
    THEN [route |-> "status", task_id |-> task_id, status_code |-> 404,
          body |-> [detail |-> "Task not found"]]
    ELSE [route |-> "status", task_id |-> task_id, status_code |-> 200,
          body |-> processing_tasks[task_id]]

\* POST /api/music/generate-async: a fresh id, its record, the job queued, the answer
GenerateMusicAsync ==
    /\ Cardinality(DOMAIN processing_tasks) < MaxTasks
    /\ LET task_id == Cardinality(DOMAIN processing_tasks) + 1
       IN  /\ processing_tasks' =
                [t \in DOMAIN processing_tasks \cup {task_id} |->
                    IF t = task_id THEN AudioProcessingStatus(task_id, "pending", 0)
                    ELSE processing_tasks[t]]
           /\ jobs' = [t \in DOMAIN jobs \cup {task_id} |->
                         IF t = task_id THEN [pc |-> "queued", out |-> NotAwaited]
                         ELSE jobs[t]]
           /\ http' = [route |-> "generate-async", task_id |-> task_id, status_code |-> 200,
                       body |-> [task_id |-> task_id, status |-> "pending"]]
    /\ UNCHANGED coreVars

\* the background job runs to its await
BackgroundStart(task_id) ==
    /\ task_id \in DOMAIN jobs
    /\ jobs[task_id].pc = "queued"
    /\ processing_tasks' =
          store_own(processing_tasks, task_id, background_start(processing_tasks[task_id]))
    /\ jobs' = [jobs EXCEPT ![task_id].pc = "awaiting"]
    /\ UNCHANGED <<coreVars, http>>

\* the generation call returns or raises and the job runs to its end
BackgroundResume(task_id) ==
    /\ task_id \in DOMAIN jobs
    /\ jobs[task_id].pc = "awaiting"
    /\ \E out \in GenerationOutcomes :
          /\ processing_tasks' =
                store_own(processing_tasks, task_id,
                          background_resume(processing_tasks[task_id], out))
          /\ jobs' = [jobs EXCEPT ![task_id] = [pc |-> "done", out |-> out]]
    /\ UNCHANGED <<coreVars, http>>

\* GET /api/music/status/{task_id}
GetGenerationStatus(task_id) ==
    /\ http' = get_generation_status(task_id)
    /\ UNCHANGED <<coreVars, processing_tasks, jobs>>

InitTasks == cfg = GenerateConfig /\ plan = "free" /\ hash_seed = 0 /\ Fresh
NextTasks ==
    \/ GenerateMusicAsync
    \/ \E task_id \in TaskIds : BackgroundStart(task_id)
    \/ \E task_id \in TaskIds : BackgroundResume(task_id)
    \/ \E task_id \in TaskIds \cup {UnknownId} : GetGenerationStatus(task_id)
SpecTasks == InitTasks /\ [][NextTasks]_vars

\* The event loop runs every queued job and every awaited call returns or raises.
SpecTasksFair ==
    /\ SpecTasks
    /\ \A task_id \in TaskIds :
          WF_vars(BackgroundStart(task_id)) /\ WF_vars(BackgroundResume(task_id))

(***************************************************************************)
(* Route handlers of api/routes/music.py and api/routes/lyrics.py: each    *)
(* is a try block with `except Exception` around its own raises.           *)
(***************************************************************************)
\* A str by its shape: l spaces, n characters without a space at either end,
\* r spaces. None is NoText.
NoText == <<>>
len(t) == t[1] + t[2] + t[3]
strip(t) == IF t[2] = 0 THEN <<0, 0, 0>> ELSE <<0, t[2], 0>>
TruthyText(t) == t # NoText /\ len(t) > 0

\* exceptions by class; str(e) is text
RouteHTTPException(status_code, detail, text) ==
    [outcome |-> "raised", class |-> "HTTPException", status_code |-> status_code,
     detail |-> detail, text |-> text]
PyException(text) == [outcome |-> "raised", class |-> "Exception", text |-> text]
PromptSafetyError(message, suggestion, detail) ==
    [outcome |-> "raised", class |-> "PromptSafetyError", text |-> message,
     suggestion |-> suggestion, detail |-> detail]

\* the error of the composition call: the status and body it carries as attributes
\* (attrs) or only inside its text "status_code: N, body: {...}"; a body is absent
\* (NoBody) or a dict, flat or under "detail", whose status and code may be missing
NoBody == [present |-> FALSE]
ErrorStatuses == {None, "bad_prompt", "prompt_safety", "BAD_PROMPT", "rate_limited"}
ErrorCodes == {None, "bad_prompt", "BAD_PROMPT", "rate_limited"}
ErrorBodies ==
    {NoBody} \cup
    {[present |-> TRUE, nested |-> n, status |-> st, code |-> c] :
        n \in BOOLEAN, st \in ErrorStatuses, c \in ErrorCodes}
NoStatus == 0
UpstreamErrors ==
    {[outcome |-> "raised", attrs |-> a, status_code |-> sc, body |-> b] :
        a \in BOOLEAN, sc \in {NoStatus, 400, 429}, b \in ErrorBodies}
ComposeOutcomes == {[outcome |-> "returned"]} \cup UpstreamErrors

\* str(err) of the composition error
ErrorText(err) ==
    IF err.status_code = NoStatus THEN "timeout"
    ELSE "status_code: " \o ToString(err.status_code) \o ", body: "
         \o (IF err.body.present
             THEN "{status: " \o err.body.status \o ", code: " \o err.body.code \o "}"
             ELSE "None")

\* _coerce_detail_dict / _coerce_detail_dict_from_text: the dict under "detail" when
\* there is one, else the dict itself, None without a body
coerce_detail_dict(body) ==
    IF ~body.present THEN NoBody
    ELSE [present |-> TRUE, status |-> body.status, code |-> body.code]

SafetyStatuses == {"bad_prompt", "prompt_safety", "BAD_PROMPT"}

\* _extract_prompt_safety_error taking status and code alike
extract_prompt_safety_error_either(err) ==
    LET detail_dict == coerce_detail_dict(err.body)
    IN  IF err.status_code # 400 THEN NoBody
        ELSE IF ~detail_dict.present THEN NoBody
        ELSE IF detail_dict.status \notin SafetyStatuses /\ detail_dict.code \notin SafetyStatuses
        THEN NoBody
        ELSE [present |-> TRUE, message |-> "Prompt rejected by ElevenLabs safety rules.",
              suggestion |-> None, detail |-> detail_dict]

\* _extract_prompt_safety_error: the status comes from the attribute or, failing
\* that, from the text; the body likewise; status = get("status") or get("code")
extract_prompt_safety_error(err) ==
    LET status_code == IF err.attrs THEN err.status_code ELSE NoStatus
        text_says_400 == err.status_code = 400
        detail_dict == coerce_detail_dict(err.body)
        status == IF Truthy(detail_dict.status) THEN detail_dict.status ELSE detail_dict.code
    IN  IF status_code # 400 /\ ~text_says_400 THEN NoBody
        ELSE IF ~detail_dict.present THEN NoBody
        ELSE IF status \notin SafetyStatuses THEN NoBody
        ELSE [present |-> TRUE, message |-> "Prompt rejected by ElevenLabs safety rules.",
              suggestion |-> None, detail |-> detail_dict]

\* _generate_complete_song: the except branch around compose_detailed
generate_complete_song(up) ==
    IF up.outcome = "returned" THEN up
    ELSE LET prompt_error == extract_prompt_safety_error(up)
         IN  IF prompt_error.present
             THEN PromptSafetyError(prompt_error.message, prompt_error.suggestion,
                                    prompt_error.detail)
             ELSE PyException("ElevenLabs Music API error: " \o ErrorText(up))

\* ElevenLabsService.generate_music: PromptSafetyError passes, the rest is wrapped
service_generate_music(up) ==
    LET r == generate_complete_song(up)
    IN  IF r.outcome = "returned" THEN r
        ELSE IF r.class = "PromptSafetyError" THEN r
        ELSE PyException("Error generating music: " \o r.text)

\* what the client gets for the HTTPException a handler ends with
Response(exc) == [status_code |-> exc.status_code, detail |-> exc.detail]
Ok == [status_code |-> 200, detail |-> "ok"]

\* except Exception as e: raise HTTPException(500, f"{prefix}{str(e)}"); every
\* exception class of the handlers, HTTPException too, is an Exception
except_Exception(r, prefix) ==
    Response(RouteHTTPException(500, prefix \o r.text, ""))

\* generate_music (routes/music.py): the try block, then the except clauses in order
generate_music_checks(request) ==
    IF TruthyText(request.lyrics) /\ len(strip(request.lyrics)) < 10
    THEN RouteHTTPException(400, "Lyrics must be at least 10 characters long when provided",
            "400: Lyrics must be at least 10 characters long when provided")
    ELSE IF request.duration < 15 \/ request.duration > 300
    THEN RouteHTTPException(400, "Duration must be between 15 and 300 seconds",
            "400: Duration must be between 15 and 300 seconds")
    ELSE [outcome |-> "returned"]

generate_music_try(request, up) ==
    LET checks == generate_music_checks(request)
    IN  IF checks.outcome = "raised" THEN checks ELSE service_generate_music(up)

generate_music(request, up) ==
    LET r == generate_music_try(request, up)
    IN  IF r.outcome = "returned" THEN Ok
        ELSE IF r.class = "PromptSafetyError"
        THEN Response(RouteHTTPException(400,
                [code |-> "BAD_PROMPT", message |-> r.text,
                 promptSuggestion |-> r.suggestion, detail |-> r.detail], ""))
        ELSE except_Exception(r, "Error generating music: ")

\* generate_lyrics (routes/lyrics.py); up is what openai_service.generate_lyrics did
generate_lyrics(request, up) ==
    LET r == IF ~TruthyText(request.story) \/ len(strip(request.story)) < 10
             THEN RouteHTTPException(400, "Story must be at least 10 characters long",
                     "400: Story must be at least 10 characters long")
             ELSE up
    IN  IF r.outcome = "returned" THEN Ok
        ELSE except_Exception(r, "Error generating lyrics: ")

\* download_music; exists is os.path.exists(audio_path)
download_music(request) ==
    LET r == IF ~request.exists
             THEN RouteHTTPException(404, "Music file not found", "404: Music file not found")
             ELSE [outcome |-> "returned"]
    IN  IF r.outcome = "returned" THEN Ok
        ELSE except_Exception(r, "Error downloading music: ")

\* clone_voice; files are the content types of the uploads; the service call raises
RECURSIVE AllAudio(_)
AllAudio(files) ==
    IF Len(files) = 0 THEN TRUE
    ELSE Head(files) = "audio/mpeg" /\ AllAudio(Tail(files))

clone_voice(request) ==
    LET r == IF Len(request.files) < 3
             THEN RouteHTTPException(400, "At least 3 audio samples required for voice cloning",
                     "400: At least 3 audio samples required for voice cloning")
             ELSE IF ~AllAudio(request.files)
             THEN RouteHTTPException(400, "Only audio files are allowed",
                     "400: Only audio files are allowed")
             ELSE PyException("Voice cloning not supported in this version")
    IN  IF r.outcome = "returned" THEN Ok
        ELSE except_Exception(r, "Error cloning voice: ")

\* requests that passed the schema (MusicGenerationRequest.duration is 15..300,
\* LyricsGenerationRequest.story has 10..2000 characters)
LyricsTexts == {NoText, <<0, 0, 0>>, <<0, 9, 0>>, <<0, 10, 0>>, <<2, 9, 3>>, <<1, 12, 1>>, <<5, 0, 5>>}
StoryTexts == {<<0, 10, 0>>, <<2, 9, 3>>, <<6, 0, 6>>, <<1, 12, 1>>}
MaxFiles == 3
ContentTypes == {"audio/mpeg", "image/png"}
Pending == [status_code |-> 0, detail |-> "pending"]
NotCalledUp == [outcome |-> "not called"]

RouteRequests ==
    {[route |-> "music/generate", request |-> [lyrics |-> l, duration |-> d],
      up |-> NotCalledUp, response |-> Pending] : l \in LyricsTexts, d \in {15, 300}}
    \cup {[route |-> "lyrics/generate", request |-> [story |-> st],
           up |-> NotCalledUp, response |-> Pending] : st \in StoryTexts}
    \cup {[route |-> "music/download", request |-> [exists |-> e],
           up |-> NotCalledUp, response |-> Pending] : e \in BOOLEAN}
    \cup {[route |-> "music/clone-voice", request |-> [files |-> f],
           up |-> NotCalledUp, response |-> Pending] : f \in SeqsUpTo(ContentTypes, MaxFiles)}

Unanswered(route) == http.route = route /\ http.response = Pending

GenerateMusic ==
    /\ Unanswered("music/generate")
    /\ \E up \in (IF generate_music_checks(http.request).outcome = "raised"
                  THEN {NotCalledUp} ELSE ComposeOutcomes) :
          http' = [http EXCEPT !.up = up, !.response = generate_music(http.request, up)]
    /\ UNCHANGED <<coreVars, processing_tasks, jobs>>

GenerateLyrics ==
    /\ Unanswered("lyrics/generate")
    /\ \E up \in {[outcome |-> "returned"], PyException("Error generating lyrics: timeout")} :
          http' = [http EXCEPT !.up = up, !.response = generate_lyrics(http.request, up)]
    /\ UNCHANGED <<coreVars, processing_tasks, jobs>>

DownloadMusic ==
    /\ Unanswered("music/download")
    /\ http' = [http EXCEPT !.response = download_music(http.request)]
    /\ UNCHANGED <<coreVars, processing_tasks, jobs>>

CloneVoice ==
    /\ Unanswered("music/clone-voice")
    /\ http' = [http EXCEPT !.response = clone_voice(http.request)]
    /\ UNCHANGED <<coreVars, processing_tasks, jobs>>

InitRoutes ==
    /\ http \in RouteRequests
    /\ processing_tasks = <<>> /\ jobs = <<>>
    /\ cfg = GenerateConfig /\ plan = "free" /\ hash_seed = 0
    /\ raw = NoRequest /\ parsed = "accepted"
    /\ verdict = NoVerdict /\ merged_genre = NotCalled /\ instrument_preset = NotCalled
    /\ voice = NotCalled /\ payload = NoPayload /\ pc = "received" /\ sent = NoPayload
    /\ tables = ModuleTables /\ parts = <<>> /\ lyrics_prompt = NotCalled
    /\ verdict_again = NoVerdict /\ payload_again = NoPayload /\ wk = <<>>
NextRoutes ==
    \/ GenerateMusic
    \/ GenerateLyrics
    \/ DownloadMusic
    \/ CloneVoice
SpecRoutes == InitRoutes /\ [][NextRoutes]_vars

\* The public functions called on one config in any order, the validator and the
\* assembler up to twice.
InitCalls == cfg \in CallConfigs /\ SchemaValid(cfg) /\ plan \in PlanType /\ hash_seed \in HashSeeds /\ Fresh
NextCalls ==
    \/ ValidatePlanLimits
    \/ ValidatePlanLimitsAgain
    \/ MapToMusicApi
    \/ MapToMusicApiAgain
    \/ ChooseInstrumentPreset
    \/ ChooseVoicePreset
SpecCalls == InitCalls /\ [][NextCalls]_vars

(***************************************************************************)
(* The generation pipeline of section 2 of the specification: a request is *)
(* received, validated against the plan, assembled into a payload and the  *)
(* payload is handed to the composition API; a failed validation ends the  *)
(* request. The next request starts from scratch.                          *)
(***************************************************************************)
PipelineConfigs ==
    {[GenerateConfig EXCEPT !.structure.duration_sec = d, !.structure.stems = s,
                            !.ai.creativity = cr, !.music.fusion = f] :
        d \in {90, 91, 150}, s \in SeqsUpTo({"master", "vocals"}, MaxStems),
        cr \in {50, 76}, f \in {<<>>, <<"synthwave">>}}

PipelineValidate ==
    /\ pc = "received"
    /\ verdict' = validate_plan_limits(cfg, plan)
    /\ pc' = IF verdict' = Passed THEN "validated" ELSE "rejected"
    /\ UNCHANGED <<cfg, plan, merged_genre, instrument_preset, voice, payload, sent, otherVars>>

\* the assembler step taken whatever the validator said
PipelineAssembleUnguarded ==
    /\ pc \in {"validated", "rejected"}
    /\ payload' = map_to_music_api(cfg)
    /\ pc' = "assembled"
    /\ UNCHANGED <<cfg, plan, verdict, merged_genre, instrument_preset, voice, sent, otherVars>>

PipelineAssemble ==
    /\ pc = "validated"
    /\ payload' = map_to_music_api(cfg)
    /\ pc' = "assembled"
    /\ UNCHANGED <<cfg, plan, verdict, merged_genre, instrument_preset, voice, sent, otherVars>>

PipelineSend ==
    /\ pc = "assembled"
    /\ sent' = payload
    /\ pc' = "sent"
    /\ UNCHANGED <<cfg, plan, verdict, merged_genre, instrument_preset, voice, payload, otherVars>>

PipelineReceive ==
    /\ pc \in {"rejected", "sent"}
    /\ cfg' \in PipelineConfigs
    /\ SchemaValid(cfg')
    /\ plan' \in {"free", "pro"}
    /\ verdict' = NoVerdict
    /\ payload' = NoPayload
    /\ sent' = NoPayload
    /\ pc' = "received"
    /\ UNCHANGED <<merged_genre, instrument_preset, voice, otherVars>>

InitPipeline == cfg \in PipelineConfigs /\ SchemaValid(cfg) /\ plan \in {"free", "pro"} /\ hash_seed = 0 /\ Fresh
NextPipeline == PipelineValidate \/ PipelineAssemble \/ PipelineSend \/ PipelineReceive
SpecPipeline == InitPipeline /\ [][NextPipeline]_vars

(***************************************************************************)
(* Properties of validate_plan_limits (SpecPlan).                          *)
(***************************************************************************)
Limits == PLAN_LIMITS[plan]
Called == verdict # NoVerdict
Raised(check) == verdict.outcome = "raised" /\ verdict.check = check

DurationWithin == cfg.structure.duration_sec <= Limits.max_duration
StemsWithin ==
    \A i \in 1..Len(cfg.structure.stems) :
        \E j \in 1..Len(Limits.allowed_stems) :
            cfg.structure.stems[i] = Limits.allowed_stems[j]
MasteringIsDefault ==
    cfg.production.mastering = [target_lufs |-> -14, stereo_width |-> 60, limiter |-> "balanced"]
MasteringWithin == Limits.mastering_controls \/ MasteringIsDefault
CreativityWithin == cfg.ai.creativity <= Limits.max_creativity

\* C1: validate_plan_limits returns without error iff the duration, the stems,
\* the mastering block and the creativity are all within the plan; in every other
\* case it raises the HTTP 400 plan-limit error.
C1_PassesIffWithinLimits ==
    Called =>
        /\ (verdict = Passed) <=>
              (DurationWithin /\ StemsWithin /\ MasteringWithin /\ CreativityWithin)
        /\ verdict # Passed => (verdict.outcome = "raised" /\ verdict.status_code = 400)

C1_Witness ==
    /\ verdict = Passed
    /\ plan = "pro"
    /\ cfg.structure.duration_sec = 150
    /\ cfg.structure.stems = <<"master", "vocals">>
    /\ cfg.ai.creativity = 75

CheckOrder == <<"duration", "stems", "mastering", "creativity">>
Violated(check) ==
    CASE check = "duration" -> ~DurationWithin
      [] check = "stems" -> ~StemsWithin
      [] check = "mastering" -> ~MasteringWithin
      [] check = "creativity" -> ~CreativityWithin
ViolationCount == Cardinality({i \in 1..4 : Violated(CheckOrder[i])})
EarliestViolated ==
    CheckOrder[CHOOSE i \in 1..4 :
        Violated(CheckOrder[i]) /\ \A j \in 1..(i - 1) : ~Violated(CheckOrder[j])]

\* C2: a config that violates more than one limit is rejected with the error of
\* the earliest violated check in the order duration, stems, mastering, creativity.
C2_FirstViolationWins ==
    (Called /\ ViolationCount > 1) => Raised(EarliestViolated)

C2_Witness ==
    /\ Called
    /\ plan = "free"
    /\ cfg.structure.duration_sec = 150
    /\ cfg.structure.stems = <<"master", "vocals">>
    /\ Raised("duration")

\* C4: with the other fields within the plan, duration_sec = max_duration is
\* accepted and max_duration + 1 is rejected with the duration error; free accepts
\* 90 and rejects 91 and 150, pro accepts 150.
C4_DurationStrict ==
    (Called /\ StemsWithin /\ MasteringWithin /\ CreativityWithin) =>
        /\ cfg.structure.duration_sec = Limits.max_duration => verdict = Passed
        /\ cfg.structure.duration_sec = Limits.max_duration + 1 =>
              (Raised("duration") /\ verdict.detail.max_duration = Limits.max_duration)
        /\ (plan = "free" /\ cfg.structure.duration_sec = 90) => verdict = Passed
        /\ (plan = "free" /\ cfg.structure.duration_sec \in {91, 150}) => Raised("duration")
        /\ (plan = "pro" /\ cfg.structure.duration_sec = 150) => verdict = Passed

C4_Witness ==
    /\ Called
    /\ plan = "free"
    /\ cfg.structure.duration_sec = 91
    /\ StemsWithin /\ MasteringWithin /\ CreativityWithin
    /\ Raised("duration")

Disallowed ==
    {s \in StemNames :
        /\ \E i \in 1..Len(cfg.structure.stems) : cfg.structure.stems[i] = s
        /\ \A j \in 1..Len(Limits.allowed_stems) : Limits.allowed_stems[j] # s}

\* C5: a config that passes the duration check is rejected with the stems error
\* iff some requested stem is not allowed by the plan, and the error names exactly
\* the disallowed stems and the plan's allowed list; [master, vocals] is rejected
\* under free and accepted under pro.
C5_StemsError ==
    (Called /\ DurationWithin) =>
        /\ Raised("stems") <=> (Disallowed # {})
        /\ Raised("stems") =>
              /\ verdict.detail.invalid_stems = Disallowed
              /\ verdict.detail.allowed_stems = Limits.allowed_stems
        /\ (cfg.structure.stems = <<"master", "vocals">> /\ MasteringWithin /\ CreativityWithin) =>
              /\ plan = "free" => Raised("stems")
              /\ plan = "pro" => verdict = Passed

C5_Witness ==
    /\ Called
    /\ plan = "free"
    /\ cfg.structure.duration_sec = 90
    /\ cfg.structure.stems = <<"master", "vocals">>
    /\ Raised("stems")
    /\ verdict.detail.invalid_stems = {"vocals"}

\* C6: under free and pro a config that passes the duration and stems checks is
\* rejected with the mastering error iff one of target_lufs, stereo_width, limiter
\* differs from -14, 60, balanced; under studio and label the mastering error is
\* never raised.
C6_MasteringControls ==
    Called =>
        /\ (plan \in {"free", "pro"} /\ DurationWithin /\ StemsWithin) =>
              (Raised("mastering") <=>
                  \/ cfg.production.mastering.target_lufs # -14
                  \/ cfg.production.mastering.stereo_width # 60
                  \/ cfg.production.mastering.limiter # "balanced")
        /\ plan \in {"studio", "label"} => ~Raised("mastering")

C6_Witness ==
    /\ Called
    /\ plan = "pro"
    /\ cfg.production.mastering =
          [target_lufs |-> -14, stereo_width |-> 60, limiter |-> "brick"]
    /\ Raised("mastering")

(***************************************************************************)
(* The pipeline's order (SpecPipeline).                                    *)
(***************************************************************************)
\* C3: the payload assembler runs for a config only after the plan validator has
\* passed for that config; when the validator fails no payload is assembled or
\* handed to the composition API.
C3_AssembleOnlyAfterValidation ==
    /\ Called => verdict = validate_plan_limits(cfg, plan)
    /\ payload # NoPayload => (verdict = Passed /\ payload = map_to_music_api(cfg))
    /\ sent # NoPayload => (verdict = Passed /\ sent = payload)
    /\ (Called /\ verdict # Passed) =>
          (pc = "rejected" /\ payload = NoPayload /\ sent = NoPayload)

C3_Witness ==
    /\ pc = "sent"
    /\ plan = "pro"
    /\ cfg.structure.duration_sec = 150
    /\ sent.genre = "pop_synthwave"
    /\ sent.key_signature = "C major"

(***************************************************************************)
(* Properties of merge_genre_fusion (SpecGenre).                           *)
(***************************************************************************)
ResolvedGenre == IF cfg.music.genre \in DOMAIN GENRE_MAP THEN GENRE_MAP[cfg.music.genre]
                 ELSE cfg.music.genre
FusionTag(i) == IF cfg.music.fusion[i] \in DOMAIN FUSION_TAGS
                THEN FUSION_TAGS[cfg.music.fusion[i]]
                ELSE cfg.music.fusion[i]

\* C7: merge_genre_fusion returns the resolved base genre alone for an empty
\* fusion, otherwise the base and the first two mapped fusion tags joined by "_" in
\* their order; the result equals the result for fusion cut to its first two
\* entries; (pop, [synthwave]) gives pop_synthwave.
C7_MergeGenreFusion ==
    merged_genre # NotCalled =>
        /\ Len(cfg.music.fusion) = 0 => merged_genre = ResolvedGenre
        /\ Len(cfg.music.fusion) = 1 => merged_genre = ResolvedGenre \o "_" \o FusionTag(1)
        /\ Len(cfg.music.fusion) >= 2 =>
              merged_genre = ResolvedGenre \o "_" \o FusionTag(1) \o "_" \o FusionTag(2)
        /\ merged_genre = merge_genre_fusion(cfg.music.genre, Take(cfg.music.fusion, 2))
        /\ (cfg.music.genre = "pop" /\ cfg.music.fusion = <<"synthwave">>) =>
              merged_genre = "pop_synthwave"

C7_Witness ==
    /\ cfg.music.genre = "kpop"
    /\ cfg.music.fusion = <<"turkish_makam", "ska", "latin">>
    /\ merged_genre = "kpop_anatolian_flavor_ska"

(***************************************************************************)
(* Properties of choose_instrument_preset (SpecInstrument).                *)
(***************************************************************************)
Lead == cfg.instrumentation.lead_instrument
Support == cfg.instrumentation.support_instruments

\* Support in non-decreasing str order: each name of StrOrder, in that order, as
\* often as Support holds it
RECURSIVE SupportFrom(_)
SupportFrom(i) ==
    IF i > Len(StrOrder) THEN <<>>
    ELSE [k \in 1..Cardinality({j \in 1..Len(Support) : Support[j] = StrOrder[i]}) |->
             StrOrder[i]] \o SupportFrom(i + 1)

SortedSupport == SupportFrom(1)

SupportSummary ==
    CASE Len(Support) = 0 -> "solo"
      [] Len(Support) = 1 -> SortedSupport[1]
      [] OTHER -> SortedSupport[1] \o "_" \o SortedSupport[2]

\* C8: choose_instrument_preset returns the table entry of the full key
\* (lead, *sorted(support)) when there is one, otherwise the entry of (lead,) when
\* there is one, otherwise "{lead}_{summary}_{genre}"; baglama with davul and ney
\* gives turkish_traditional, baglama with any other support gives anatolian_pop.
C8_InstrumentPresetPriority ==
    instrument_preset # NotCalled =>
        /\ instrument_preset =
              IF <<Lead>> \o SortedSupport \in DOMAIN INSTRUMENT_PRESET_MAP
              THEN INSTRUMENT_PRESET_MAP[<<Lead>> \o SortedSupport]
              ELSE IF <<Lead>> \in DOMAIN INSTRUMENT_PRESET_MAP
                   THEN INSTRUMENT_PRESET_MAP[<<Lead>>]
              ELSE Lead \o "_" \o SupportSummary \o "_" \o cfg.music.genre
        /\ Lead = "baglama" =>
              instrument_preset =
                  IF Support \in {<<"davul", "ney">>, <<"ney", "davul">>}
                  THEN "turkish_traditional" ELSE "anatolian_pop"

C8_Witness ==
    /\ Lead = "baglama"
    /\ Support = <<"ney", "davul">>
    /\ instrument_preset = "turkish_traditional"

(***************************************************************************)
(* Properties of choose_voice_preset (SpecVoice).                          *)
(***************************************************************************)
EffectiveGender == IF cfg.persona = "duet" THEN "duet" ELSE cfg.vocal.vocal_gender
EffectivePersona == IF cfg.persona = "duet" THEN None ELSE cfg.persona
Register == cfg.vocal.vocal_register

\* C9: choose_voice_preset returns the table entry of (gender, register, persona)
\* when there is one, otherwise the entry of (gender, register, null) when there is
\* one, otherwise "{gender}_{register}_{genre}", for the effective gender and
\* persona; it returns a value for every gender, register and persona.
C9_VoicePresetPriority ==
    voice # NotCalled =>
        voice =
            IF <<EffectiveGender, Register, EffectivePersona>> \in DOMAIN VOICE_PRESET_MAP
            THEN VOICE_PRESET_MAP[<<EffectiveGender, Register, EffectivePersona>>]
            ELSE IF <<EffectiveGender, Register, None>> \in DOMAIN VOICE_PRESET_MAP
                 THEN VOICE_PRESET_MAP[<<EffectiveGender, Register, None>>]
            ELSE EffectiveGender \o "_" \o Register \o "_" \o cfg.music.genre

C9_Witness ==
    /\ cfg.persona = "storyteller"
    /\ cfg.vocal.vocal_gender = "male"
    /\ Register = "powerful"
    /\ voice = "male_powerful_rock"

\* C10: with persona "duet" the result does not depend on vocal.vocal_gender: it
\* is duet_soft_airy for airy, duet_balanced for chesty and "duet_{register}_{genre}"
\* for every other register.
C10_DuetPersona ==
    (voice # NotCalled /\ cfg.persona = "duet") =>
        voice =
            CASE Register = "airy" -> "duet_soft_airy"
              [] Register = "chesty" -> "duet_balanced"
              [] OTHER -> "duet_" \o Register \o "_" \o cfg.music.genre

C10_Witness ==
    /\ cfg.persona = "duet"
    /\ cfg.vocal.vocal_gender = "female"
    /\ Register = "airy"
    /\ voice = "duet_soft_airy"

(***************************************************************************)
(* Properties of build_lyrics_prompt (SpecPrompt).                         *)
(***************************************************************************)
PromptBuilt == lyrics_prompt # NotCalled

\* the text the prompt must be when the optional parts shown are those for which
\* the flags hold
PromptText(withSubtheme, withPersona) ==
    "Theme: " \o cfg.theme
    \o (IF withSubtheme THEN " | Subtheme: " \o cfg.subtheme ELSE "")
    \o (IF withPersona THEN " | Persona: " \o cfg.persona ELSE "")
    \o (IF cfg.lyrics.keywords # <<>>
        THEN " | Keywords: " \o Join(cfg.lyrics.keywords, ", ") ELSE "")
    \o " | Style: " \o cfg.lyrics.style
    \o " | Rhyme: " \o cfg.lyrics.rhyme_scheme
    \o " | Language: " \o Join(cfg.language, ", ")

Count(b) == IF b THEN 1 ELSE 0

PromptShape(withSubtheme, withPersona) ==
    /\ lyrics_prompt = PromptText(withSubtheme, withPersona)
    /\ Len(parts) = 4 + Count(withSubtheme) + Count(withPersona)
                      + Count(cfg.lyrics.keywords # <<>>)
    /\ parts[1] = "Theme: " \o cfg.theme
    /\ parts[Len(parts)] = "Language: " \o Join(cfg.language, ", ")
    /\ \A i \in 1..Len(parts) : parts[i] # ""

\* C11 as stated: Subtheme and Persona are shown whenever the field is present
\* (not null); the prompt has 4 segments plus one per present optional field.
C11_PromptWhenPresent ==
    PromptBuilt => PromptShape(cfg.subtheme # None, cfg.persona # None)

\* C11, amended: the prompt is the labelled segments joined by " | " in the order
\* Theme, Subtheme, Persona, Keywords, Style, Rhyme, Language; Subtheme and Persona
\* are shown when the field is present and not the empty string, Keywords when the
\* list is non-empty; there are 4 segments plus one per shown optional field, Theme
\* first and Language last, no empty segment and no stray separator.
C11_PromptWhenNonEmpty ==
    PromptBuilt =>
        PromptShape(cfg.subtheme # None /\ cfg.subtheme # "",
                    cfg.persona # None /\ cfg.persona # "")

C11_Witness ==
    /\ cfg.theme = "love"
    /\ cfg.subtheme = ""
    /\ cfg.persona = "storyteller"
    /\ cfg.lyrics.keywords = <<"sea", "night">>
    /\ cfg.language = <<"tr", "en">>
    /\ lyrics_prompt =
          "Theme: love | Persona: storyteller | Keywords: sea, night | Style: poetic | Rhyme: ABAB | Language: tr, en"

(***************************************************************************)
(* Properties of map_to_music_api (SpecCalls).                             *)
(***************************************************************************)
Assembled == payload # NoPayload

\* C12: the payload copies the config 1:1: bpm, time_signature, duration_seconds,
\* hooks, vocals_fx, stems, fx_sfx, seed (null included), creativity, guidance and
\* repetition_penalty are the config's values, key_signature is "{key} {scale}",
\* mixing holds exactly tape_sat and glue_comp, mastering exactly target_lufs,
\* stereo_width and limiter, safety exactly explicit_ok.
C12_PayloadCopiesConfig ==
    Assembled =>
        /\ payload.bpm = cfg.music.bpm
        /\ payload.time_signature = cfg.music.time_signature
        /\ payload.duration_seconds = cfg.structure.duration_sec
        /\ payload.hooks = cfg.instrumentation.hooks
        /\ payload.vocals_fx = cfg.production.vocals_fx
        /\ payload.stems = cfg.structure.stems
        /\ payload.fx_sfx = cfg.production.fx_sfx
        /\ payload.seed = cfg.ai.seed
        /\ payload.creativity = cfg.ai.creativity
        /\ payload.guidance = cfg.ai.guidance
        /\ payload.repetition_penalty = cfg.ai.repetition_penalty
        /\ payload.key_signature = cfg.music.key \o " " \o cfg.music.scale
        /\ (cfg.music.key = "C" /\ cfg.music.scale = "major") =>
              payload.key_signature = "C major"
        /\ payload.mixing = [tape_sat |-> cfg.production.mix_bus.tape_sat,
                             glue_comp |-> cfg.production.mix_bus.glue_comp]
        /\ DOMAIN payload.mixing = {"tape_sat", "glue_comp"}
        /\ payload.mastering = cfg.production.mastering
        /\ DOMAIN payload.mastering = {"target_lufs", "stereo_width", "limiter"}
        /\ payload.safety = [explicit_ok |-> cfg.explicit_ok]
        /\ DOMAIN payload.safety = {"explicit_ok"}

C12_Witness ==
    /\ Assembled
    /\ cfg.ai.seed = NoSeed
    /\ payload.seed = NoSeed
    /\ payload.key_signature = "F# dorian"
    /\ payload.duration_seconds = 300
    /\ payload.stems = <<"choir", "master", "choir">>
    /\ payload.mixing = [tape_sat |-> TRUE, glue_comp |-> "heavy"]

\* the config is beyond what any plan allows
ExceedsEveryPlan == \A p \in PlanType : validate_plan_limits(cfg, p).outcome = "raised"

PayloadFields ==
    {"lyrics_prompt", "genre", "bpm", "key_signature", "time_signature",
     "duration_seconds", "voice", "instrument_preset", "hooks", "mixing", "vocals_fx",
     "mastering", "stems", "fx_sfx", "seed", "creativity", "guidance",
     "repetition_penalty", "safety"}

\* C13: the preset resolvers and the assembler are total: for every schema-valid
\* config (empty support list, unknown instrument, genre or persona, a config beyond
\* every plan), whatever the validator said or whether it ran at all,
\* choose_instrument_preset and choose_voice_preset return a non-empty string and
\* map_to_music_api returns a payload with every field, its presets the resolvers'.
C13_ResolversTotal ==
    /\ instrument_preset # ""
    /\ voice # ""
    /\ Assembled =>
          /\ DOMAIN payload = PayloadFields
          /\ payload.instrument_preset # ""
          /\ payload.voice # ""
          /\ instrument_preset # NotCalled => payload.instrument_preset = instrument_preset
          /\ voice # NotCalled => payload.voice = voice

C13_Witness ==
    /\ ExceedsEveryPlan
    /\ verdict = NoVerdict
    /\ "choir" \in ToSet(cfg.structure.stems)
    /\ cfg.music.genre = "kpop"
    /\ cfg.instrumentation.lead_instrument = ""
    /\ cfg.instrumentation.support_instruments = <<"zurna", "pad", "808">>
    /\ cfg.persona = "storyteller"
    /\ instrument_preset = "_808_pad_kpop"
    /\ voice = "nonbinary_powerful_kpop"
    /\ Assembled
    /\ payload.stems = cfg.structure.stems

AssembledAgain == payload_again # NoPayload

CalledAgain == verdict_again # NoVerdict

\* what a step of the validator does to the objects it was handed
ValidatorStep == ValidatePlanLimits \/ ValidatePlanLimitsAgain
ValidatorKeeps == ValidatorStep => (cfg' = cfg /\ tables' = tables)

Accepted == parsed = "accepted"
Rejected == parsed = "rejected"
CoreUntouched == verdict = NoVerdict /\ payload = NoPayload /\ lyrics_prompt = NotCalled

RawTotal == (IF "tr" \in DOMAIN raw.language_split THEN raw.language_split["tr"] ELSE 0)
            + (IF "en" \in DOMAIN raw.language_split THEN raw.language_split["en"] ELSE 0)

\* C16: an accepted VocalConfig has language_split values that sum to exactly 100;
\* a given mapping with any other total, the empty mapping included, is rejected at
\* validation, and neither the validator nor the assembler nor the prompt builder
\* ever runs on it.
C16_LanguageSplitSums ==
    /\ Accepted =>
          (IF "tr" \in DOMAIN cfg.vocal.language_split THEN cfg.vocal.language_split["tr"] ELSE 0)
          + (IF "en" \in DOMAIN cfg.vocal.language_split THEN cfg.vocal.language_split["en"] ELSE 0)
          = 100
    /\ ("language_split" \in raw.given /\ RawTotal # 100 /\ parsed # "pending") => Rejected
    /\ Rejected => CoreUntouched /\ cfg = NoConfig
    /\ ~Accepted => CoreUntouched

C16_Witness ==
    /\ Accepted
    /\ cfg.vocal.language_split = [tr |-> 150, en |-> -50]
    /\ verdict # NoVerdict
    /\ payload # NoPayload

\* C17: an accepted GenerateConfig has a non-empty language list: a request whose
\* language is the empty list is rejected and never reaches the prompt builder.
C17_LanguageNonEmpty ==
    /\ Accepted => cfg.language # <<>>
    /\ ("language" \in raw.given /\ raw.language = <<>> /\ parsed # "pending") => Rejected
    /\ lyrics_prompt # NotCalled => cfg.language # <<>>

\* the empty list is accepted and the prompt ends in an empty Language segment
C17_EmptyLanguagePrompt ==
    /\ Accepted
    /\ "language" \in raw.given
    /\ raw.language = <<>>
    /\ cfg.language = <<>>
    /\ lyrics_prompt = "Theme: love | Style: poetic | Rhyme: ABAB | Language: "

(***************************************************************************)
(* Order of the support instruments (SpecInstrument).                      *)
(***************************************************************************)
\* the config with support instruments i and j exchanged
SupportSwapped(i, j) ==
    [cfg EXCEPT !.instrumentation.support_instruments =
        [k \in 1..Len(@) |-> IF k = i THEN @[j] ELSE IF k = j THEN @[i] ELSE @[k]]]

\* C18: choose_instrument_preset does not depend on the order of the support
\* instruments: exchanging any two of them (and so any reordering) resolves to the
\* same preset, in the table-match branches and in the composed fallback alike.
C18_SupportOrderIrrelevant ==
    instrument_preset # NotCalled =>
        \A i, j \in 1..Len(Support) :
            choose_instrument_preset(SupportSwapped(i, j)) = instrument_preset

C18_Witness ==
    /\ Lead = "baglama"
    /\ Support = <<"ney", "davul">>
    /\ instrument_preset = "turkish_traditional"
    /\ choose_instrument_preset(SupportSwapped(1, 2)) = "turkish_traditional"
    /\ SupportSwapped(1, 2).instrumentation.support_instruments = <<"davul", "ney">>

(***************************************************************************)
(* Concurrent calls (SpecWorkers).                                         *)
(***************************************************************************)
WorkerDone(w) == wk[w].pc = "done"

PlanRank == [free |-> 1, pro |-> 2, studio |-> 3, label |-> 4]
HigherPlans == {q \in PlanType : PlanRank[q] > PlanRank[plan]}

\* C20: the plans are monotone in the order free < pro < studio < label: a config
\* validate_plan_limits accepts under a plan is accepted under every higher plan.
C20_PlanMonotone ==
    (Called /\ verdict = Passed) =>
        \A q \in HigherPlans : validate_plan_limits(cfg, q) = Passed

\* accepted under pro, refused under studio and label for the stem "instrumental"
C20_UpgradeRejects ==
    /\ Called
    /\ plan = "pro"
    /\ verdict = Passed
    /\ cfg.structure.stems = <<"instrumental">>
    /\ validate_plan_limits(cfg, "studio").outcome = "raised"
    /\ validate_plan_limits(cfg, "studio").check = "stems"
    /\ validate_plan_limits(cfg, "label").check = "stems"

(***************************************************************************)
(* The validated config and its payload (SpecCalls).                       *)
(***************************************************************************)
\* C21: whenever validate_plan_limits passes, the payload of the same config keeps
\* within the plan: duration_seconds <= max_duration, every stem is an allowed stem,
\* creativity <= max_creativity, and on a plan without mastering controls the
\* mastering block is the default one (-14, 60, balanced).
C21_PayloadWithinPlan ==
    (verdict = Passed /\ Assembled) =>
        /\ payload.duration_seconds <= Limits.max_duration
        /\ \A i \in 1..Len(payload.stems) : payload.stems[i] \in ToSet(Limits.allowed_stems)
        /\ payload.creativity <= Limits.max_creativity
        /\ ~Limits.mastering_controls =>
              /\ payload.mastering.target_lufs = -14
              /\ payload.mastering.stereo_width = 60
              /\ payload.mastering.limiter = "balanced"

C21_Witness ==
    /\ verdict = Passed
    /\ Assembled
    /\ plan = "pro"
    /\ payload.duration_seconds = 150
    /\ payload.stems = <<"master">>
    /\ payload.creativity = 50
    /\ payload.mastering = [target_lufs |-> -14, stereo_width |-> 60, limiter |-> "balanced"]

(***************************************************************************)
(* Reach of the instrument preset table (SpecInstrument).                  *)
(***************************************************************************)
Occurrences(xs, x) == Cardinality({i \in 1..Len(xs) : xs[i] = x})
IsReordering(xs, ys) ==
    /\ Len(xs) = Len(ys)
    /\ \A x \in ToSet(xs) \cup ToSet(ys) : Occurrences(xs, x) = Occurrences(ys, x)

\* C22: every entry of INSTRUMENT_PRESET_MAP is reachable: for a key
\* (lead, s1, ..., sn) with preset p, a config with that lead and the support
\* instruments s1..sn in any order makes choose_instrument_preset return p.
C22_EveryEntryReachable ==
    instrument_preset # NotCalled =>
        \A k \in DOMAIN INSTRUMENT_PRESET_MAP :
            (Lead = Head(k) /\ IsReordering(Support, Tail(k))) =>
                instrument_preset = INSTRUMENT_PRESET_MAP[k]

\* the key (piano, pad, 808) is given in the table's own order and the composed
\* name comes back instead of "piano_pad_pop"
C22_EntryMissed ==
    /\ Lead = "piano"
    /\ Support = <<"pad", "808">>
    /\ cfg.music.genre = "pop"
    /\ <<"piano", "pad", "808">> \in DOMAIN INSTRUMENT_PRESET_MAP
    /\ instrument_preset = "piano_808_pad_pop"

(***************************************************************************)
(* Asynchronous music tasks (SpecTasks, SpecTasksFair).                    *)
(***************************************************************************)
Issued == DOMAIN processing_tasks
JobDone(t) == t \in Issued /\ jobs[t].pc = "done"
CallReturned(t) == JobDone(t) /\ jobs[t].out.kind = "returned"
CallRaised(t) == JobDone(t) /\ jobs[t].out.kind = "raised"

\* C23: when the generation call of an asynchronous task returns successfully, the
\* task's record has status "completed", progress 100 and the generation result
\* stored on it, from then on.
C23_CompletedOnSuccess ==
    \A t \in TaskIds :
        CallReturned(t) =>
            /\ processing_tasks[t].status = "completed"
            /\ processing_tasks[t].progress = 100
            /\ "result" \in DOMAIN processing_tasks[t]
            /\ processing_tasks[t].result = jobs[t].out.text

\* the call returned and the record says "failed": storing the result raised
C23_SuccessRecordedAsFailed ==
    /\ CallReturned(1)
    /\ processing_tasks[1].status = "failed"
    /\ processing_tasks[1].progress = 100
    /\ processing_tasks[1].error_message = NoFieldError("result")
    /\ "result" \notin DOMAIN processing_tasks[1]

Terminal(t) == t \in Issued /\ processing_tasks[t].status \in {"completed", "failed"}

\* C24: every asynchronous task eventually leaves "pending" and "processing" for a
\* terminal status, given that its job is run and the generation call returns or
\* raises; when the call raises, the final record has status "failed", the error
\* text as error_message and progress below 100.
C24_TasksTerminate ==
    /\ \A t \in TaskIds : (t \in Issued) ~> Terminal(t)
    /\ [](\A t \in TaskIds : JobDone(t) => Terminal(t))
    /\ [](\A t \in TaskIds :
            CallRaised(t) =>
                /\ processing_tasks[t].status = "failed"
                /\ processing_tasks[t].error_message = jobs[t].out.text
                /\ processing_tasks[t].progress < 100)

C24_Witness ==
    /\ CallRaised(2)
    /\ processing_tasks[2].status = "failed"
    /\ processing_tasks[2].progress = 25
    /\ processing_tasks[2].error_message =
          "Error generating music: ElevenLabs Music API error: timeout"
    /\ Terminal(1)

\* a status query was answered in this step
StatusAnswered == http' # http /\ http'.route = "status"
StatusAnswerRight ==
    StatusAnswered =>
        /\ (http'.status_code = 404) <=> (http'.task_id \notin Issued)
        /\ http'.status_code = 404 => http'.body = [detail |-> "Task not found"]
        /\ http'.task_id \in Issued =>
              (http'.status_code = 200 /\ http'.body = processing_tasks[http'.task_id])
RecordsKept == \A t \in Issued : t \in DOMAIN processing_tasks'
IssuedAnswered ==
    (http' # http /\ http'.route = "generate-async") =>
        /\ http'.task_id \notin Issued
        /\ http'.task_id \in DOMAIN processing_tasks'
        /\ processing_tasks'[http'.task_id].status = "pending"
        /\ processing_tasks'[http'.task_id].progress = 0
        /\ jobs'[http'.task_id].pc = "queued"

JobMoved(t) == t \in Issued /\ jobs'[t] # jobs[t]
OthersUntouched(t) ==
    \A u \in Issued \ {t} : processing_tasks'[u] = processing_tasks[u] /\ jobs'[u] = jobs[u]
JobWritesOwnRecord == \A t \in TaskIds : JobMoved(t) => OthersUntouched(t)
OnlyJobsWrite ==
    \A t \in Issued : processing_tasks'[t] # processing_tasks[t] => JobMoved(t)

\* what a task reports, its id aside
Reported(t) == [processing_tasks[t] EXCEPT !.task_id = UnknownId]

\* C28: asynchronous tasks are isolated from each other: under every interleaving
\* of jobs and status queries a job changes only the record under its own task_id,
\* so the status, progress and error message of a task follow from its own job
\* alone, whatever the other tasks did.
C28_TasksIsolated ==
    /\ [][JobWritesOwnRecord]_vars
    /\ [][OnlyJobsWrite]_vars
    /\ [](\A t, u \in Issued : jobs[t] = jobs[u] => Reported(t) = Reported(u))
    /\ [](\A t \in Issued : processing_tasks[t].task_id = t)

C28_Witness ==
    /\ Issued = {1, 2}
    /\ CallRaised(1)
    /\ processing_tasks[1].status = "failed"
    /\ jobs[2].pc = "awaiting"
    /\ processing_tasks[2].status = "processing"
    /\ processing_tasks[2].progress = 25
    /\ processing_tasks[2].error_message = None

(***************************************************************************)
(* Errors of the route handlers (SpecRoutes).                              *)
(***************************************************************************)
Answered(route) == http.route = route /\ http.response # Pending
ShortText(t) == t # NoText /\ t[2] < 10

\* C26: a client-error HTTPException a handler raises on purpose reaches the client
\* with its own status code: 400 for lyrics (music generate) or a story (lyrics
\* generate) shorter than 10 characters after trimming, 400 for fewer than 3 voice
\* samples or a non-audio file, 404 for a missing music file; never a 500.
C26_ClientErrorsKeepStatus ==
    /\ (Answered("music/generate") /\ http.request.lyrics # NoText
            /\ len(http.request.lyrics) > 0 /\ ShortText(http.request.lyrics))
          => http.response.status_code = 400
    /\ (Answered("lyrics/generate") /\ ShortText(http.request.story))
          => http.response.status_code = 400
    /\ (Answered("music/clone-voice")
            /\ (Len(http.request.files) < 3
                \/ \E i \in 1..Len(http.request.files) : http.request.files[i] # "audio/mpeg"))
          => http.response.status_code = 400
    /\ (Answered("music/download") /\ ~http.request.exists)
          => http.response.status_code = 404

\* lyrics of 9 characters between spaces: the handler's own 400 comes out as 500
C26_ClientErrorBecomes500 ==
    /\ Answered("music/generate")
    /\ http.request.lyrics = <<2, 9, 3>>
    /\ http.up = NotCalledUp
    /\ http.response.status_code = 500

\* the generation call was made and failed
CallFailed ==
    /\ Answered("music/generate")
    /\ ~(http.request.lyrics # NoText /\ len(http.request.lyrics) > 0
         /\ ShortText(http.request.lyrics))
    /\ http.up.outcome = "raised"
IsBadPrompt ==
    /\ http.response.status_code = 400
    /\ http.response.detail.code = "BAD_PROMPT"
    /\ http.response.detail.message = "Prompt rejected by ElevenLabs safety rules."
    /\ http.response.detail.promptSuggestion = None
    /\ http.response.detail.detail.status = http.up.body.status
    /\ http.response.detail.detail.code = http.up.body.code
StatusOrCode(body) == IF body.status \notin {None, ""} THEN body.status ELSE body.code

\* C27: in the synchronous music generate route a composition error is reported as
\* HTTP 400 with code BAD_PROMPT (with message, prompt suggestion and detail) if and
\* only if the upstream error has status 400 and its detail's status or code is one
\* of bad_prompt, prompt_safety, BAD_PROMPT; every other failure is an HTTP 500.
C27_BadPromptIffEither ==
    CallFailed =>
        IF /\ http.up.status_code = 400
           /\ http.up.body.present
           /\ (http.up.body.status \in SafetyStatuses \/ http.up.body.code \in SafetyStatuses)
        THEN IsBadPrompt
        ELSE http.response.status_code = 500

\* C27 as the code has it: the detail's status decides when it is present and not
\* empty, its code only otherwise.
C27_BadPromptIffFirstOf ==
    CallFailed =>
        IF /\ http.up.status_code = 400
           /\ http.up.body.present
           /\ StatusOrCode(http.up.body) \in SafetyStatuses
        THEN IsBadPrompt
        ELSE http.response.status_code = 500

C27_Witness ==
    /\ CallFailed
    /\ ~http.up.attrs
    /\ http.up.status_code = 400
    /\ http.up.body.present
    /\ http.up.body.nested
    /\ http.up.body.status = None
    /\ http.up.body.code = "BAD_PROMPT"
    /\ IsBadPrompt

(***************************************************************************)
(* The persona in choose_voice_preset (SpecVoice).                         *)
(***************************************************************************)
\* the preset of a gender, register and genre alone
PresetOf(gender, register, genre) ==
    IF <<gender, register, None>> \in DOMAIN VOICE_PRESET_MAP
    THEN VOICE_PRESET_MAP[<<gender, register, None>>]
    ELSE gender \o "_" \o register \o "_" \o genre

\* C29: for a persona other than 'duet' the voice preset does not depend on the
\* persona: configs that differ only in persona (absent or any string but 'duet')
\* get the same preset, the one vocal_gender, vocal_register and genre determine.
C29_PersonaIrrelevant ==
    (voice # NotCalled /\ cfg.persona # "duet") =>
        /\ voice = PresetOf(cfg.vocal.vocal_gender, cfg.vocal.vocal_register, cfg.music.genre)
        /\ \A p \in Personas \ {"duet"} :
              choose_voice_preset([cfg EXCEPT !.persona = p]) = voice

C29_Witness ==
    /\ cfg.persona = "storyteller"
    /\ cfg.vocal.vocal_gender = "female"
    /\ cfg.vocal.vocal_register = "airy"
    /\ voice = "female_soft_airy"
    /\ choose_voice_preset([cfg EXCEPT !.persona = None]) = "female_soft_airy"

====
